---- MODULE Spec2Model ----
(***************************************************************************)
(* Persistence layer of the weekly production planner                      *)
(* (src/modelos/database.py, src/modelos/database_models.py and the        *)
(* wrappers of src/utils/db_helpers.py).                                   *)
(*                                                                         *)
(* The state is the content of the tables programaciones,                  *)
(* tareas_planificadas, ejecucion_real and metricas_calculadas.  Every     *)
(* function of the layer that the application calls to write one of these  *)
(* tables is one action: the function opens a session, works, commits and  *)
(* returns, so a call is one atomic step.  The variable ultimo records the *)
(* last call and what it returned.                                         *)
(***************************************************************************)
EXTENDS Integers, Sequences, FiniteSets, TLC

VARIABLES programaciones, tareas_planificadas, ejecuciones, metricas, ultimo,
          sesiones

vars == <<programaciones, tareas_planificadas, ejecuciones, metricas, ultimo,
         sesiones>>

datos == <<programaciones, tareas_planificadas, ejecuciones, metricas>>

----------------------------------------------------------------------------
(* Bounds of the model *)

\* Largest sequence number of an id PROG-<anio>-W<semana>-<seq>.
MaxSeq == 2

\* Largest number of programaciones stored at the same time.
MaxProgramaciones == 2

\* Largest rowid of tareas_planificadas.
MaxTareaId == 2

\* Largest rowid of ejecucion_real.
MaxEjecucionId == 2

\* Largest number of calls in progress at the same time.
MaxSesiones == 2

\* Largest flat minute of a solver assignment.
MaxMinuto == 12

\* Largest length of the labor day, in minutes.
MaxMinutosPorDia == 5

\* Real times are whole minutes 0..MaxTiempo after the start of the week.
MaxTiempo == 1

\* Working days and effective minutes of a working day of the scheduling model.
MaxDias == 2

MaxMinutosDiaLaboral == 2

\* Operators, duration and setup of a task, numbers in a task id.
MaxOperadores == 2

MaxDuracion == 2

MaxSetup == 1

MaxGrupo == 2

\* Executions in a list given to the KPI calculator and their minutes.
MaxEjecs == 2

MaxPlanKpi == 2

MaxRealKpi == 3

MaxParadasKpi == 1

MaxTolerancia == 1

----------------------------------------------------------------------------
(* Values *)

\* Python's None, for a string column and for an integer argument.
NONE == "None"

SinValor == -1

\* EstadoProgramacion
SIMULACION == "simulacion"

PLANIFICADA == "planificada"

EN_EJECUCION == "en_ejecucion"

COMPLETADA == "completada"

CANCELADA == "cancelada"

EstadoProgramacion == {SIMULACION, PLANIFICADA, EN_EJECUCION, COMPLETADA, CANCELADA}

\* The weeks and the year the calls are made for.
Semanas == {42}

Anios == {2025}

\* The user name the application passes.
Usuarios == {"Usuario App"}

Tiempos == 0 .. MaxTiempo

\* Planned start minutes and planned durations of the tasks that are saved.
IniciosPlan == {0}

DuracionesPlan == {1}

\* A programación id PROG-<anio>-W<semana>-<seq> is the triple it is built from.
FormatoId(anio, semana, seq) == <<anio, semana, seq>>

ProgIds == {FormatoId(a, s, n) : a \in Anios, s \in Semanas, n \in 1 .. MaxSeq}

NoProg == <<0, 0, 0>>

Maximo(S) == CHOOSE x \in S : \A y \in S : y <= x

\* The rowid SQLite gives to a new row of a table whose rows have the ids S.
SiguienteRowid(S) == IF S = {} THEN 1 ELSE Maximo(S) + 1

\* A call and what it returned: the function, the programación it was made for, an
\* argument (the requested state, forzar), whether it succeeded, and a note.
Llamada(op, prog, arg, ok, nota) ==
    [op |-> op, prog |-> prog, arg |-> arg, ok |-> ok, nota |-> nota]

----------------------------------------------------------------------------
(* Queries *)

Existe(prog_id) == prog_id \in DOMAIN programaciones

\* The planned tasks of a programación.
TareasDe(prog_id) ==
    {t \in DOMAIN tareas_planificadas : tareas_planificadas[t].programacion_id = prog_id}

\* The executions whose tarea_planificada_id is t.
EjecucionesDeTarea(t) ==
    {e \in DOMAIN ejecuciones : ejecuciones[e].tarea_planificada_id = t}

\* EjecucionReal JOIN TareaPlanificada filtered by programacion_id.
EjecucionesDe(prog_id) ==
    {e \in DOMAIN ejecuciones : ejecuciones[e].tarea_planificada_id \in TareasDe(prog_id)}

Quitar(f, S) == [x \in (DOMAIN f) \ S |-> f[x]]

Poner(f, k, v) == [x \in (DOMAIN f) \cup {k} |-> IF x = k THEN v ELSE f[x]]

\* The sessions that can be open at the same time, and a session that holds
\* nothing: every function opens its own session and closes it on return.
Sesiones == 1 .. MaxSesiones

Libre == [fase |-> "libre"]

----------------------------------------------------------------------------
Init ==
    /\ programaciones = << >>
    /\ tareas_planificadas = << >>
    /\ ejecuciones = << >>
    /\ metricas = << >>
    /\ ultimo = Llamada("init", NoProg, NONE, TRUE, NONE)
    /\ sesiones = [s \in Sesiones |-> Libre]

----------------------------------------------------------------------------
(* crear_programacion *)

\* The numbers at the end of the ids stored for (anio, semana).
numeros_usados(semana, anio) ==
    {p[3] : p \in {q \in DOMAIN programaciones :
                     programaciones[q].semana_produccion = semana
                     /\ programaciones[q].anio = anio}}

siguiente_numero(semana, anio) ==
    IF numeros_usados(semana, anio) # {}
    THEN Maximo(numeros_usados(semana, anio)) + 1
    ELSE 1

crear_programacion(semana, anio) ==
    LET prog_id == FormatoId(anio, semana, siguiente_numero(semana, anio)) IN
    /\ programaciones' = Poner(programaciones, prog_id,
            [semana_produccion |-> semana, anio |-> anio, estado |-> SIMULACION,
             aprobada_por |-> NONE, fecha_aprobacion |-> 0])
    /\ ultimo' = Llamada("crear_programacion", prog_id, NONE, TRUE, NONE)
    /\ UNCHANGED <<tareas_planificadas, ejecuciones, metricas>>

----------------------------------------------------------------------------
(* aprobar_programacion and its wrapper aprobar_programacion_actual *)

aprobar_programacion(prog_id, aprobada_por, ahora) ==
    IF Existe(prog_id)
    THEN /\ programaciones' = [programaciones EXCEPT
                ![prog_id].estado = PLANIFICADA,
                ![prog_id].aprobada_por = aprobada_por,
                ![prog_id].fecha_aprobacion = ahora]
         /\ ultimo' = Llamada("aprobar_programacion", prog_id, NONE, TRUE, NONE)
         /\ UNCHANGED <<tareas_planificadas, ejecuciones, metricas>>
    ELSE /\ ultimo' = Llamada("aprobar_programacion", prog_id, NONE, FALSE,
                              "no encontrada")
         /\ UNCHANGED datos

aprobar_programacion_actual(prog_id, usuario, ahora) ==
    aprobar_programacion(prog_id, usuario, ahora)

----------------------------------------------------------------------------
(* calcular_y_guardar_metricas *)

\* The rows of metricas_calculadas of a programación.
MetricasDe(prog_id) ==
    {m \in DOMAIN metricas : metricas[m].programacion_id = prog_id}

\* A computation that does not look for a stored row.
ResultadoMetricas_sin_consulta(prog_id, falla) ==
    IF ~Existe(prog_id) THEN "no encontrada"
    ELSE IF EjecucionesDe(prog_id) = {} THEN "sin ejecuciones"
    ELSE IF falla THEN "error"
    ELSE "guardada"

\* What a call does: "no encontrada" and "sin ejecuciones" return None,
\* "existente" returns the id of the stored row, "guardada" stores a row and
\* returns its id, "error" is an exception raised while the KPIs are computed
\* or stored (the session is rolled back).
ResultadoMetricas(prog_id, falla) ==
    IF ~Existe(prog_id) THEN "no encontrada"
    ELSE IF MetricasDe(prog_id) # {} THEN "existente"
    ELSE IF EjecucionesDe(prog_id) = {} THEN "sin ejecuciones"
    ELSE IF falla THEN "error"
    ELSE "guardada"

\* The row of metricas_calculadas computed from the executions stored now.
datos_metricas(prog_id) ==
    [throughput_semanal |-> Cardinality(EjecucionesDe(prog_id))]

\* MetricaCalculada(programacion_id=..., **datos_metricas)
MetricaCalculada(prog_id, datos_kpi) ==
    [programacion_id |-> prog_id,
     throughput_semanal |-> datos_kpi.throughput_semanal]

\* What the call returns: the id of the row found or stored, or None.
IdMetrica(prog_id, falla) ==
    CASE ResultadoMetricas(prog_id, falla) = "existente" ->
            CHOOSE m \in MetricasDe(prog_id) : TRUE
      [] ResultadoMetricas(prog_id, falla) = "guardada" ->
            SiguienteRowid(DOMAIN metricas)
      [] OTHER -> SinValor

MetricasTras(prog_id, falla) ==
    IF ResultadoMetricas(prog_id, falla) = "guardada"
    THEN Poner(metricas, SiguienteRowid(DOMAIN metricas),
               MetricaCalculada(prog_id, datos_metricas(prog_id)))
    ELSE metricas

calcular_y_guardar_metricas(prog_id, falla) ==
    /\ metricas' = MetricasTras(prog_id, falla)
    /\ ultimo' = Llamada("calcular_y_guardar_metricas", prog_id, NONE,
                         ResultadoMetricas(prog_id, falla) \in {"existente", "guardada"},
                         ResultadoMetricas(prog_id, falla))
                  @@ [id |-> IdMetrica(prog_id, falla)]
    /\ UNCHANGED <<programaciones, tareas_planificadas, ejecuciones>>

----------------------------------------------------------------------------
(* cambiar_estado_programacion and the wrappers cancelar_programacion,     *)
(* iniciar_ejecucion_programacion, completar_programacion                  *)

\* A table that also lets a programación in en_ejecucion be cancelled.
transiciones_validas_con_cancelacion(estado_actual) ==
    CASE estado_actual = SIMULACION   -> {PLANIFICADA, CANCELADA}
      [] estado_actual = PLANIFICADA  -> {EN_EJECUCION, CANCELADA}
      [] estado_actual = EN_EJECUCION -> {COMPLETADA, CANCELADA}
      [] estado_actual = COMPLETADA   -> {}
      [] estado_actual = CANCELADA    -> {}

transiciones_validas(estado_actual) ==
    CASE estado_actual = SIMULACION   -> {PLANIFICADA, CANCELADA}
      [] estado_actual = PLANIFICADA  -> {EN_EJECUCION, CANCELADA}
      [] estado_actual = EN_EJECUCION -> {COMPLETADA}
      [] estado_actual = COMPLETADA   -> {}
      [] estado_actual = CANCELADA    -> {}

\* A call without the try/except: the exception of the KPI computation leaves it.
propaga_error_kpi_sin_try(kpi) == kpi = "error"

\* The KPI computation runs after the commit, inside try/except: its exception
\* is logged and never leaves cambiar_estado_programacion.
propaga_error_kpi(kpi) == FALSE

cambiar_estado_programacion(prog_id, nuevo_estado, usuario, ahora, falla) ==
    IF ~Existe(prog_id)
    THEN /\ ultimo' = Llamada("cambiar_estado_programacion", prog_id, nuevo_estado,
                              FALSE, "no encontrada")
         /\ UNCHANGED datos
    ELSE
    LET estado_actual == programaciones[prog_id].estado
        kpi == IF nuevo_estado = COMPLETADA
               THEN ResultadoMetricas(prog_id, falla) ELSE NONE
    IN
    IF nuevo_estado \notin transiciones_validas(estado_actual)
    THEN /\ ultimo' = Llamada("cambiar_estado_programacion", prog_id, nuevo_estado,
                              FALSE,
                              IF transiciones_validas(estado_actual) = {}
                              THEN "no se puede cambiar" ELSE "transicion invalida")
         /\ UNCHANGED datos
    ELSE /\ programaciones' =
                IF nuevo_estado = PLANIFICADA /\ usuario # NONE
                THEN [programaciones EXCEPT ![prog_id].estado = nuevo_estado,
                                            ![prog_id].aprobada_por = usuario,
                                            ![prog_id].fecha_aprobacion = ahora]
                ELSE [programaciones EXCEPT ![prog_id].estado = nuevo_estado]
         /\ metricas' = IF nuevo_estado = COMPLETADA
                        THEN MetricasTras(prog_id, falla) ELSE metricas
         /\ ultimo' = Llamada("cambiar_estado_programacion", prog_id, nuevo_estado,
                              ~propaga_error_kpi(kpi), kpi)
         /\ UNCHANGED <<tareas_planificadas, ejecuciones>>

cancelar_programacion(prog_id) ==
    cambiar_estado_programacion(prog_id, CANCELADA, NONE, 0, FALSE)

iniciar_ejecucion_programacion(prog_id) ==
    cambiar_estado_programacion(prog_id, EN_EJECUCION, NONE, 0, FALSE)

completar_programacion(prog_id, falla) ==
    cambiar_estado_programacion(prog_id, COMPLETADA, NONE, 0, falla)

----------------------------------------------------------------------------
(* verificar_programacion_completa *)

\* query(TareaPlanificada).filter(programacion_id == ...).count()
total_tareas(programacion_id) == Cardinality(TareasDe(programacion_id))

\* query(TareaPlanificada).join(EjecucionReal, ...).filter(...).count(): the
\* rows of the join, one for every pair of a planned task and one of its
\* executions.
tareas_registradas(programacion_id) ==
    Cardinality({par \in TareasDe(programacion_id) \X DOMAIN ejecuciones :
                    ejecuciones[par[2]].tarea_planificada_id = par[1]})

esta_completa(programacion_id) ==
    /\ total_tareas(programacion_id) > 0
    /\ tareas_registradas(programacion_id) = total_tareas(programacion_id)

verificar_programacion_completa(programacion_id) ==
    /\ ultimo' = Llamada("verificar_programacion_completa", programacion_id, NONE,
                         esta_completa(programacion_id),
                         <<total_tareas(programacion_id),
                           tareas_registradas(programacion_id)>>)
    /\ UNCHANGED datos

----------------------------------------------------------------------------
(* eliminar_programacion and its wrapper eliminar_programacion_guardada *)

\* A guard that forgets planificada.
estados_protegidos_sin_planificada == {EN_EJECUCION, COMPLETADA}

\* The states a call without forzar refuses to delete.
estados_protegidos == {PLANIFICADA, EN_EJECUCION, COMPLETADA}

\* session.delete(prog) with the ORM cascades of the relationships:
\* Programacion.tareas_planificadas is a list, so every planned task goes;
\* Programacion.metricas is one row (programacion_id is unique);
\* TareaPlanificada.ejecucion_real is declared uselist=False, so the cascade
\* reaches the one execution the relationship loads for each planned task,
\* whichever row the database returns first (elegidas).
CascadaEjecuciones(prog_id) ==
    {elegidas \in SUBSET EjecucionesDe(prog_id) :
        \A t \in TareasDe(prog_id) :
            IF EjecucionesDeTarea(t) = {}
            THEN TRUE
            ELSE Cardinality(elegidas \cap EjecucionesDeTarea(t)) = 1}

eliminar_programacion(prog_id, forzar) ==
    IF ~Existe(prog_id)
    THEN /\ ultimo' = Llamada("eliminar_programacion", prog_id,
                              IF forzar THEN "forzar" ELSE NONE, FALSE, "no encontrada")
         /\ UNCHANGED datos
    ELSE IF ~forzar /\ programaciones[prog_id].estado \in estados_protegidos
    THEN /\ ultimo' = Llamada("eliminar_programacion", prog_id,
                              IF forzar THEN "forzar" ELSE NONE, FALSE, "protegida")
         /\ UNCHANGED datos
    ELSE \E elegidas \in CascadaEjecuciones(prog_id) :
         /\ programaciones' = Quitar(programaciones, {prog_id})
         /\ tareas_planificadas' = Quitar(tareas_planificadas, TareasDe(prog_id))
         /\ ejecuciones' = Quitar(ejecuciones, elegidas)
         /\ metricas' = Quitar(metricas, MetricasDe(prog_id))
         /\ ultimo' = Llamada("eliminar_programacion", prog_id,
                              IF forzar THEN "forzar" ELSE NONE, TRUE,
                              programaciones[prog_id].estado)

eliminar_programacion_guardada(prog_id) == eliminar_programacion(prog_id, FALSE)

----------------------------------------------------------------------------
(* crear_tarea_planificada *)

crear_tarea_planificada(programacion_id, tarea_info) ==
    LET id == SiguienteRowid(DOMAIN tareas_planificadas) IN
    /\ tareas_planificadas' = Poner(tareas_planificadas, id,
            [programacion_id |-> programacion_id,
             duracion_planificada |-> tarea_info.duracion_planificada,
             inicio_planificado |-> tarea_info.inicio_planificado,
             fin_planificado |-> tarea_info.fin_planificado])
    /\ ultimo' = Llamada("crear_tarea_planificada", programacion_id, NONE, TRUE, NONE)
    /\ UNCHANGED <<programaciones, ejecuciones, metricas>>

\* The rows the save operations build for a task: fin = inicio + duracion.
TareaInfos ==
    {[duracion_planificada |-> d, inicio_planificado |-> i, fin_planificado |-> i + d] :
        d \in DuracionesPlan, i \in IniciosPlan}

----------------------------------------------------------------------------
(* registrar_ejecucion_real, actualizar_ejecucion_real, eliminar_ejecucion_real *)

\* int((fin - inicio).total_seconds() / 60) for times that are whole minutes.
MinutosEntre(inicio, fin) == fin - inicio

Max0(x) == IF x > 0 THEN x ELSE 0

\* The duration the deviation is measured against: the row of the table tareas
\* when there is one, else duracion_planificada; no operation of this layer
\* that the model covers fills the table tareas.
duracion_original(tarea_plan) == tarea_plan.duracion_planificada

desviacion_duracion(duracion_real, tiempo_paradas, tarea_plan) ==
    Max0(duracion_real - tiempo_paradas) - duracion_original(tarea_plan)

registrar_ejecucion_real(tarea_planificada_id, inicio_real, fin_real, tiempo_paradas) ==
    IF tarea_planificada_id \notin DOMAIN tareas_planificadas
    THEN /\ ultimo' = Llamada("registrar_ejecucion_real", NoProg, NONE, FALSE,
                              "ValueError")
         /\ UNCHANGED datos
    ELSE
    LET tarea_plan == tareas_planificadas[tarea_planificada_id]
        duracion_real == MinutosEntre(inicio_real, fin_real)
        id == SiguienteRowid(DOMAIN ejecuciones)
    IN
    /\ ejecuciones' = Poner(ejecuciones, id,
            [tarea_planificada_id |-> tarea_planificada_id,
             inicio_real |-> inicio_real,
             fin_real |-> fin_real,
             duracion_real |-> duracion_real,
             desviacion_duracion |->
                 desviacion_duracion(duracion_real, tiempo_paradas, tarea_plan),
             tiempo_paradas |-> tiempo_paradas])
    /\ ultimo' = Llamada("registrar_ejecucion_real", tarea_plan.programacion_id,
                         NONE, TRUE, NONE)
    /\ UNCHANGED <<programaciones, tareas_planificadas, metricas>>

\* The arguments left at None are SinValor.
Dado(valor, actual) == IF valor # SinValor THEN valor ELSE actual

actualizar_ejecucion_real(ejecucion_id, inicio_real, fin_real, tiempo_paradas) ==
    IF ejecucion_id \notin DOMAIN ejecuciones
    THEN /\ ultimo' = Llamada("actualizar_ejecucion_real", NoProg, NONE,
                              FALSE, "no encontrada")
         /\ UNCHANGED datos
    ELSE
    LET ejecucion == [ejecuciones[ejecucion_id] EXCEPT
                        !.inicio_real = Dado(inicio_real, @),
                        !.fin_real = Dado(fin_real, @),
                        !.tiempo_paradas = Dado(tiempo_paradas, @)]
        con_tiempos == inicio_real # SinValor \/ fin_real # SinValor
        hay_tarea == ejecucion.tarea_planificada_id \in DOMAIN tareas_planificadas
        tarea_plan == tareas_planificadas[ejecucion.tarea_planificada_id]
        duracion_real == MinutosEntre(ejecucion.inicio_real, ejecucion.fin_real)
    IN
    IF con_tiempos /\ hay_tarea
       /\ (tarea_plan.inicio_planificado # 0 \/ tarea_plan.fin_planificado # 0)
    THEN \* datetime - int: TypeError, the session is rolled back
         /\ ultimo' = Llamada("actualizar_ejecucion_real", NoProg, NONE,
                              FALSE, "TypeError")
         /\ UNCHANGED datos
    ELSE /\ ejecuciones' = [ejecuciones EXCEPT ![ejecucion_id] =
                IF con_tiempos /\ hay_tarea
                THEN [ejecucion EXCEPT
                        !.duracion_real = duracion_real,
                        !.desviacion_duracion =
                            desviacion_duracion(duracion_real, ejecucion.tiempo_paradas,
                                                tarea_plan)]
                ELSE ejecucion]
         /\ ultimo' = Llamada("actualizar_ejecucion_real", NoProg, NONE,
                              TRUE, IF con_tiempos THEN "tiempos" ELSE NONE)
         /\ UNCHANGED <<programaciones, tareas_planificadas, metricas>>

eliminar_ejecucion_real(ejecucion_id) ==
    IF ejecucion_id \in DOMAIN ejecuciones
    THEN /\ ejecuciones' = Quitar(ejecuciones, {ejecucion_id})
         /\ ultimo' = Llamada("eliminar_ejecucion_real", NoProg, NONE,
                              TRUE, NONE)
         /\ UNCHANGED <<programaciones, tareas_planificadas, metricas>>
    ELSE /\ ultimo' = Llamada("eliminar_ejecucion_real", NoProg, NONE,
                              FALSE, "no encontrada")
         /\ UNCHANGED datos

----------------------------------------------------------------------------
\* The ids and values the calls are made with.
TareaIds == 1 .. MaxTareaId

EjecucionIds == 1 .. MaxEjecucionId

\* datetime.now() at an approval.
Fechas == {1}

\* An execution is registered with inicio_real before fin_real and no stops; an
\* update corrects fin_real or leaves the times out, and reports a stop or not.
Registros == {r \in [inicio_real : Tiempos, fin_real : Tiempos, tiempo_paradas : {0}] :
                r.inicio_real < r.fin_real}

Actualizaciones ==
    [inicio_real : {SinValor}, fin_real : {MaxTiempo, SinValor},
     tiempo_paradas : {1, SinValor}]

\* The updates that give a time and leave tiempo_paradas alone.
ActualizacionesDeTiempos == {a \in Actualizaciones : a.tiempo_paradas = SinValor}

Next ==
    \/ \E s \in Semanas, a \in Anios :
         /\ Cardinality(DOMAIN programaciones) < MaxProgramaciones
         /\ siguiente_numero(s, a) <= MaxSeq
         /\ crear_programacion(s, a)
         /\ UNCHANGED sesiones
    \/ \E p \in ProgIds, u \in Usuarios, ahora \in Fechas :
         aprobar_programacion_actual(p, u, ahora) /\ UNCHANGED sesiones
    \/ \E p \in ProgIds, e \in EstadoProgramacion, u \in Usuarios, ahora \in Fechas,
          falla \in BOOLEAN :
         /\ falla => e = COMPLETADA
         /\ cambiar_estado_programacion(p, e, u, ahora, falla)
         /\ UNCHANGED sesiones
    \/ \E p \in ProgIds :
         cancelar_programacion(p) /\ UNCHANGED sesiones
    \/ \E p \in ProgIds :
         iniciar_ejecucion_programacion(p) /\ UNCHANGED sesiones
    \/ \E p \in ProgIds, falla \in BOOLEAN :
         completar_programacion(p, falla) /\ UNCHANGED sesiones
    \/ \E p \in ProgIds, forzar \in BOOLEAN :
         eliminar_programacion(p, forzar) /\ UNCHANGED sesiones
    \/ \E p \in ProgIds :
         eliminar_programacion_guardada(p) /\ UNCHANGED sesiones
    \/ \E p \in DOMAIN programaciones, info \in TareaInfos :
         /\ SiguienteRowid(DOMAIN tareas_planificadas) <= MaxTareaId
         /\ crear_tarea_planificada(p, info)
         /\ UNCHANGED sesiones
    \/ \E t \in TareaIds, r \in Registros :
         /\ SiguienteRowid(DOMAIN ejecuciones) <= MaxEjecucionId
         /\ registrar_ejecucion_real(t, r.inicio_real, r.fin_real, r.tiempo_paradas)
         /\ UNCHANGED sesiones
    \/ \E e \in EjecucionIds, a \in ActualizacionesDeTiempos :
         actualizar_ejecucion_real(e, a.inicio_real, a.fin_real, a.tiempo_paradas)
            /\ UNCHANGED sesiones
    \/ \E e \in EjecucionIds :
         eliminar_ejecucion_real(e) /\ UNCHANGED sesiones
    \/ \E p \in ProgIds, falla \in BOOLEAN :
         calcular_y_guardar_metricas(p, falla) /\ UNCHANGED sesiones
    \/ \E p \in ProgIds :
         verificar_programacion_completa(p) /\ UNCHANGED sesiones

Spec == Init /\ [][Next]_vars

----------------------------------------------------------------------------
(* Calls in progress at the same time.  Each call works in its own session: *)
(* it reads with a query, decides on what it read, then writes and commits. *)
(* Between the query and the commit other sessions can commit.              *)

\* An INSERT that ignores the primary key.
viola_clave_primaria_sin_clave(prog_id) == FALSE

\* Programacion.id is the primary key: the INSERT of a stored id is rejected.
viola_clave_primaria(prog_id) == prog_id \in DOMAIN programaciones

\* crear_programacion up to the id it builds from the rows it read.
crear_programacion_consulta(s, semana, anio) ==
    /\ sesiones[s] = Libre
    /\ sesiones' = [sesiones EXCEPT ![s] =
            [fase |-> "crear_programacion",
             prog_id |-> FormatoId(anio, semana, siguiente_numero(semana, anio)),
             semana |-> semana, anio |-> anio]]
    /\ ultimo' = Llamada("crear_programacion_consulta",
                         FormatoId(anio, semana, siguiente_numero(semana, anio)),
                         NONE, TRUE, NONE)
    /\ UNCHANGED datos

\* crear_programacion from session.add to the return.
crear_programacion_commit(s) ==
    /\ sesiones[s].fase = "crear_programacion"
    /\ LET prog_id == sesiones[s].prog_id IN
       IF viola_clave_primaria(prog_id)
       THEN /\ ultimo' = Llamada("crear_programacion", prog_id, NONE, FALSE,
                                 "IntegrityError")
            /\ UNCHANGED datos
       ELSE /\ programaciones' = Poner(programaciones, prog_id,
                    [semana_produccion |-> sesiones[s].semana,
                     anio |-> sesiones[s].anio, estado |-> SIMULACION,
                     aprobada_por |-> NONE, fecha_aprobacion |-> 0])
            /\ ultimo' = Llamada("crear_programacion", prog_id, NONE, TRUE, NONE)
            /\ UNCHANGED <<tareas_planificadas, ejecuciones, metricas>>
    /\ sesiones' = [sesiones EXCEPT ![s] = Libre]

\* cambiar_estado_programacion up to the validation of the state it read: a
\* refused request returns here, an accepted one goes on to write.
cambiar_estado_programacion_consulta(s, prog_id, nuevo_estado, usuario) ==
    /\ sesiones[s] = Libre
    /\ IF ~Existe(prog_id)
       THEN /\ ultimo' = Llamada("cambiar_estado_programacion", prog_id, nuevo_estado,
                                 FALSE, "no encontrada")
            /\ UNCHANGED <<datos, sesiones>>
       ELSE IF nuevo_estado \notin transiciones_validas(programaciones[prog_id].estado)
       THEN /\ ultimo' = Llamada("cambiar_estado_programacion", prog_id, nuevo_estado,
                                 FALSE,
                                 IF transiciones_validas(programaciones[prog_id].estado) = {}
                                 THEN "no se puede cambiar" ELSE "transicion invalida")
            /\ UNCHANGED <<datos, sesiones>>
       ELSE /\ sesiones' = [sesiones EXCEPT ![s] =
                    [fase |-> "cambiar_estado_programacion", prog_id |-> prog_id,
                     nuevo_estado |-> nuevo_estado, usuario |-> usuario]]
            /\ ultimo' = Llamada("cambiar_estado_programacion_consulta", prog_id,
                                 nuevo_estado, TRUE, NONE)
            /\ UNCHANGED datos

\* cambiar_estado_programacion from the assignment to the return: the UPDATE
\* sets the columns the session changed on the row with this id, whatever other
\* sessions committed since the query.  A row deleted meanwhile makes the flush
\* fail (the UPDATE matches no row).
cambiar_estado_programacion_commit(s, ahora, falla) ==
    /\ sesiones[s].fase = "cambiar_estado_programacion"
    /\ LET prog_id == sesiones[s].prog_id
           nuevo_estado == sesiones[s].nuevo_estado
           usuario == sesiones[s].usuario
           kpi == IF nuevo_estado = COMPLETADA
                  THEN ResultadoMetricas(prog_id, falla) ELSE NONE
       IN
       IF ~Existe(prog_id)
       THEN /\ ultimo' = Llamada("cambiar_estado_programacion", prog_id, nuevo_estado,
                                 FALSE, "StaleDataError")
            /\ UNCHANGED datos
       ELSE /\ programaciones' =
                   IF nuevo_estado = PLANIFICADA /\ usuario # NONE
                   THEN [programaciones EXCEPT ![prog_id].estado = nuevo_estado,
                                               ![prog_id].aprobada_por = usuario,
                                               ![prog_id].fecha_aprobacion = ahora]
                   ELSE [programaciones EXCEPT ![prog_id].estado = nuevo_estado]
            /\ metricas' = IF nuevo_estado = COMPLETADA
                           THEN MetricasTras(prog_id, falla) ELSE metricas
            /\ ultimo' = Llamada("cambiar_estado_programacion", prog_id, nuevo_estado,
                                 ~propaga_error_kpi(kpi), kpi)
            /\ UNCHANGED <<tareas_planificadas, ejecuciones>>
    /\ sesiones' = [sesiones EXCEPT ![s] = Libre]

NextConcurrente ==
    \/ \E s \in Sesiones, semana \in Semanas, anio \in Anios :
         /\ Cardinality(DOMAIN programaciones) < MaxProgramaciones
         /\ siguiente_numero(semana, anio) <= MaxSeq
         /\ crear_programacion_consulta(s, semana, anio)
    \/ \E s \in Sesiones : crear_programacion_commit(s)
    \/ \E s \in Sesiones, p \in ProgIds, e \in EstadoProgramacion, u \in Usuarios :
         cambiar_estado_programacion_consulta(s, p, e, u)
    \/ \E s \in Sesiones, ahora \in Fechas :
         cambiar_estado_programacion_commit(s, ahora, FALSE)
    \/ \E p \in ProgIds, forzar \in BOOLEAN :
         eliminar_programacion(p, forzar) /\ UNCHANGED sesiones

SpecConcurrente == Init /\ [][NextConcurrente]_vars

----------------------------------------------------------------------------
(* dividir_tarea_en_partes (the definition of db_helpers.py that is in      *)
(* effect, the second of the two in the file)                               *)

Min(a, b) == IF a <= b THEN a ELSE b

\* (dia_actual + 1) * minutos_por_dia
fin_dia_actual(tiempo_actual, minutos_por_dia) ==
    ((tiempo_actual \div minutos_por_dia) + 1) * minutos_por_dia

\* A part that always runs to the end of its day.
fin_parte_sin_min(tiempo_actual, fin_min, minutos_por_dia) ==
    fin_dia_actual(tiempo_actual, minutos_por_dia)

fin_parte(tiempo_actual, fin_min, minutos_por_dia) ==
    Min(fin_dia_actual(tiempo_actual, minutos_por_dia), fin_min)

\* The while loop: the parts from tiempo_actual on.
RECURSIVE partes_desde(_, _, _, _)
partes_desde(tiempo_actual, fin_min, minutos_por_dia, parte_numero) ==
    IF tiempo_actual < fin_min
    THEN <<[inicio |-> tiempo_actual,
            fin |-> fin_parte(tiempo_actual, fin_min, minutos_por_dia),
            duracion |-> fin_parte(tiempo_actual, fin_min, minutos_por_dia)
                            - tiempo_actual,
            es_dividida |-> TRUE,
            parte_numero |-> parte_numero]>>
         \o partes_desde(fin_parte(tiempo_actual, fin_min, minutos_por_dia),
                         fin_min, minutos_por_dia, parte_numero + 1)
    ELSE << >>

dividir_tarea_en_partes(asig, minutos_por_dia) ==
    IF asig.inicio \div minutos_por_dia = asig.fin \div minutos_por_dia
    THEN <<[inicio |-> asig.inicio, fin |-> asig.fin,
            duracion |-> asig.fin - asig.inicio,
            es_dividida |-> FALSE, parte_numero |-> 1]>>
    ELSE partes_desde(asig.inicio, asig.fin, minutos_por_dia, 1)

\* The solver's assignments: flat minutes from the start of the week.
Asignaciones ==
    {asig \in [inicio : 0 .. MaxMinuto, fin : 0 .. MaxMinuto] : asig.inicio <= asig.fin}

MinutosPorDia == 1 .. MaxMinutosPorDia

LlamarDividir(asig, minutos_por_dia) ==
    /\ ultimo' = Llamada("dividir_tarea_en_partes", NoProg,
                         [asig |-> asig, minutos_por_dia |-> minutos_por_dia], TRUE,
                         dividir_tarea_en_partes(asig, minutos_por_dia))
    /\ UNCHANGED <<datos, sesiones>>

NextDividir ==
    \E asig \in Asignaciones, minutos_por_dia \in MinutosPorDia :
        LlamarDividir(asig, minutos_por_dia)

SpecDividir == Init /\ [][NextDividir]_vars

----------------------------------------------------------------------------
(* The scheduling model of OptimizadorProduccion.crear_modelo                *)
(* (src/optimizador_produccion.py).  A task table tareas_df is a sequence of *)
(* rows; a machine specification is the sequence of the names its string     *)
(* holds between commas: <<"M1">> is "M1", <<"M1", "M2">> is "M1,M2" and      *)
(* <<"M?">> is the wildcard.  A task id is described by the groups of digits *)
(* it holds, in order, and by whether it holds a dash: "A12" is <<12>>       *)
(* without dash, "T1-2" is <<1, 2>> with dash before the last group.         *)

Comodines == {"M?", "CUALQUIERA", "?"}

es_comodin(maquina_spec) == Len(maquina_spec) = 1 /\ maquina_spec[1] \in Comodines

\* ',' in str(maquina_spec)
es_lista(maquina_spec) == Len(maquina_spec) > 1

Nombres(maquina_spec) == {maquina_spec[k] : k \in 1 .. Len(maquina_spec)}

Indices(tareas_df) == 1 .. Len(tareas_df)

todas_las_maquinas(tareas_df) ==
    UNION {Nombres(tareas_df[i].maquina) :
             i \in {k \in Indices(tareas_df) : ~es_comodin(tareas_df[k].maquina)}}

maquinas_fijas(tareas_df) ==
    IF todas_las_maquinas(tareas_df) = {}
    THEN {"M1", "M2", "M3"}
    ELSE todas_las_maquinas(tareas_df)

maquinas_permitidas(maquina_spec, fijas) ==
    IF es_comodin(maquina_spec) THEN fijas
    ELSE IF Nombres(maquina_spec) \cap fijas = {} THEN fijas
    ELSE Nombres(maquina_spec) \cap fijas

\* dias_disponibles * minutos_por_dia_laboral
horizon(dias_disponibles, minutos_por_dia_laboral) ==
    dias_disponibles * minutos_por_dia_laboral

duracion_total(tarea) == tarea.duracion + tarea.tiempo_setup

\* end_time[i] == start_time[i] + duracion_total, both within 0 .. horizon
restricciones_basicas(tareas_df, h, sol) ==
    \A i \in Indices(tareas_df) :
        /\ sol.inicio[i] \in 0 .. h
        /\ sol.fin[i] \in 0 .. h
        /\ sol.fin[i] = sol.inicio[i] + duracion_total(tareas_df[i])

es_flexible(maquina_spec) == es_comodin(maquina_spec) \/ es_lista(maquina_spec)

ambas_misma_fija(tarea_i, tarea_j) ==
    /\ tarea_i.maquina = tarea_j.maquina
    /\ ~es_flexible(tarea_i.maquina)
    /\ ~es_flexible(tarea_j.maquina)

\* A model that lets two tasks of one machine go unordered.
uno_antes_que_otro_sin_orden(same, i_before_j, j_before_i) ==
    ~same => (~i_before_j /\ ~j_before_i)

\* task_i_before_j + task_j_before_i == 1 if same, both 0 otherwise
uno_antes_que_otro(same, i_before_j, j_before_i) ==
    /\ same => (i_before_j # j_before_i)
    /\ ~same => (~i_before_j /\ ~j_before_i)

restricciones_temporales(sol, i, j, i_before_j, j_before_i) ==
    /\ i_before_j => sol.fin[i] <= sol.inicio[j]
    /\ j_before_i => sol.fin[j] <= sol.inicio[i]

restricciones_de_maquinas(tareas_df, sol) ==
    \A i, j \in Indices(tareas_df) :
        i < j =>
          \E same_machine, task_i_before_j, task_j_before_i \in BOOLEAN :
            /\ IF ambas_misma_fija(tareas_df[i], tareas_df[j])
               THEN same_machine
               ELSE same_machine <=> (sol.maquina[i] = sol.maquina[j])
            /\ uno_antes_que_otro(same_machine, task_i_before_j, task_j_before_i)
            /\ restricciones_temporales(sol, i, j, task_i_before_j, task_j_before_i)

\* before + after == same_operator
restricciones_de_operadores(tareas_df, num_operadores, sol) ==
    num_operadores # 0 =>
      \A i, j \in Indices(tareas_df) :
        i < j =>
          \E same_operator, before, after \in BOOLEAN :
            /\ same_operator <=> (sol.operador[i] = sol.operador[j])
            /\ IF same_operator THEN before # after ELSE ~before /\ ~after
            /\ restricciones_temporales(sol, i, j, before, after)

Ultimo(s) == s[Len(s)]

\* The key the tasks of one job are sorted by: the number after the last dash
\* when the id holds a dash, else the first group of digits of the id.
extraer_subindice(id) ==
    IF id.guion THEN Ultimo(id.grupos)
    ELSE IF id.grupos # << >> THEN Head(id.grupos)
    ELSE 0

\* Position of task i before task j in sorted(tareas_trabajo, key = ...): the
\* sort is stable, equal keys keep the order of the table.
va_antes(tareas_df, i, j) ==
    \/ extraer_subindice(tareas_df[i].id) < extraer_subindice(tareas_df[j].id)
    \/ /\ extraer_subindice(tareas_df[i].id) = extraer_subindice(tareas_df[j].id)
       /\ i < j

tareas_de_trabajo(tareas_df, trabajo_id) ==
    {i \in Indices(tareas_df) : tareas_df[i].trabajo = trabajo_id}

\* j is the task right after i in tareas_ordenadas of their job
consecutivas(tareas_df, i, j) ==
    /\ tareas_df[i].trabajo = tareas_df[j].trabajo
    /\ i # j
    /\ va_antes(tareas_df, i, j)
    /\ ~\E k \in tareas_de_trabajo(tareas_df, tareas_df[i].trabajo) \ {i, j} :
           va_antes(tareas_df, i, k) /\ va_antes(tareas_df, k, j)

restricciones_de_precedencia(tareas_df, sol) ==
    \A i, j \in Indices(tareas_df) :
        consecutivas(tareas_df, i, j) => sol.fin[i] <= sol.inicio[j]

asignaciones_permitidas(tareas_df, num_operadores, sol) ==
    \A i \in Indices(tareas_df) :
        /\ sol.maquina[i] \in
              maquinas_permitidas(tareas_df[i].maquina, maquinas_fijas(tareas_df))
        /\ sol.operador[i] \in
              (IF num_operadores # 0 THEN 0 .. (num_operadores - 1) ELSE {SinValor})

\* The assignments of the variables that satisfy every constraint of the model.
crear_modelo(tareas_df, num_operadores, h, sol) ==
    /\ asignaciones_permitidas(tareas_df, num_operadores, sol)
    /\ restricciones_basicas(tareas_df, h, sol)
    /\ restricciones_de_maquinas(tareas_df, sol)
    /\ restricciones_de_operadores(tareas_df, num_operadores, sol)
    /\ restricciones_de_precedencia(tareas_df, sol)

\* 'operador': f"OP{operator_val + 1}", "N/A" without operators
NombreOperador(operator_val) ==
    IF operator_val = SinValor THEN <<"N/A">> ELSE <<"OP", operator_val + 1>>

extraer_solucion(tareas_df, minutos_por_dia_laboral, sol) ==
    [i \in Indices(tareas_df) |->
        [tarea_id |-> tareas_df[i].id,
         tarea_indice |-> i,
         inicio |-> sol.inicio[i],
         fin |-> sol.fin[i],
         duracion |-> sol.fin[i] - sol.inicio[i],
         dia |-> sol.inicio[i] \div minutos_por_dia_laboral,
         maquina |-> sol.maquina[i],
         operador |-> NombreOperador(sol.operador[i])]]

\* The dictionary the save builds for one assignment (db_helpers.py): the
\* fields of the part, the operator of the assignment and, from the row of
\* the task table, tiempo_setup and maquina.
tarea_info_de(asig, parte, tarea_original, minutos_por_dia) ==
    [tarea_id |-> asig.tarea_id,
     duracion_planificada |-> parte.duracion,
     tiempo_setup |-> tarea_original.tiempo_setup,
     maquina_id |-> tarea_original.maquina,
     operador_id |-> asig.operador,
     inicio_planificado |-> parte.inicio,
     fin_planificado |-> parte.fin,
     dia_semana |-> parte.inicio \div minutos_por_dia,
     es_dividida |-> parte.es_dividida,
     parte_numero |-> parte.parte_numero]

\* TareaPlanificada(programacion_id = programacion_id, **tarea_info)
TareaPlanificada(programacion_id, tarea_info) ==
    [programacion_id |-> programacion_id] @@ tarea_info

\* The loop over the parts of an assignment leaves tarea_info bound to the
\* dictionary of the last part; crear_tarea_planificada runs after the loop.
tarea_info_guardada(asig, tarea_original, minutos_por_dia) ==
    tarea_info_de(asig, Ultimo(dividir_tarea_en_partes(asig, minutos_por_dia)),
                  tarea_original, minutos_por_dia)

\* The table after the loop over the assignments k .. Len(programacion).
RECURSIVE tareas_guardadas(_, _, _, _, _, _)
tareas_guardadas(tabla, prog_id, programacion, tareas_df, minutos_por_dia, k) ==
    IF k > Len(programacion) THEN tabla
    ELSE tareas_guardadas(
            Poner(tabla, SiguienteRowid(DOMAIN tabla),
                  TareaPlanificada(prog_id,
                      tarea_info_guardada(programacion[k],
                          tareas_df[programacion[k].tarea_indice], minutos_por_dia))),
            prog_id, programacion, tareas_df, minutos_por_dia, k + 1)

\* resolver(): the model has a solution and the solver returns one of them.
resolver(tareas_df, num_operadores, dias_disponibles, minutos_por_dia_laboral, sol) ==
    /\ crear_modelo(tareas_df, num_operadores,
                    horizon(dias_disponibles, minutos_por_dia_laboral), sol)
    /\ ultimo' = Llamada("resolver", NoProg,
                         [tareas_df |-> tareas_df, num_operadores |-> num_operadores,
                          minutos_por_dia_laboral |-> minutos_por_dia_laboral],
                         TRUE,
                         extraer_solucion(tareas_df, minutos_por_dia_laboral, sol))
    /\ UNCHANGED <<datos, sesiones>>

\* The candidate values of the variables of the model for a task table.
Candidatas(tareas_df, num_operadores, h) ==
    {[inicio |-> inicio,
      fin |-> [i \in Indices(tareas_df) |-> inicio[i] + duracion_total(tareas_df[i])],
      maquina |-> maquina,
      operador |-> operador] :
        inicio \in [Indices(tareas_df) -> 0 .. h],
        maquina \in [Indices(tareas_df) -> maquinas_fijas(tareas_df)],
        operador \in [Indices(tareas_df) ->
                        IF num_operadores # 0 THEN 0 .. (num_operadores - 1)
                        ELSE {SinValor}]}

\* resolver(): the model has no solution.
resolver_sin_solucion(tareas_df, num_operadores, dias_disponibles, minutos_por_dia_laboral) ==
    /\ ~\E sol \in Candidatas(tareas_df, num_operadores,
                              horizon(dias_disponibles, minutos_por_dia_laboral)) :
           crear_modelo(tareas_df, num_operadores,
                        horizon(dias_disponibles, minutos_por_dia_laboral), sol)
    /\ ultimo' = Llamada("resolver", NoProg,
                         [tareas_df |-> tareas_df, num_operadores |-> num_operadores,
                          minutos_por_dia_laboral |-> minutos_por_dia_laboral],
                         FALSE, << >>)
    /\ UNCHANGED <<datos, sesiones>>

\* guardar_programacion_desde_resultado without programacion_detallada: the
\* result saved is the one the solver returned last.
guardar_programacion_desde_resultado(semana, anio) ==
    LET prog_id == FormatoId(anio, semana, siguiente_numero(semana, anio))
        resultado == ultimo.nota
        trabajos == ultimo.arg.tareas_df
        minutos_por_dia == ultimo.arg.minutos_por_dia_laboral
    IN
    /\ ultimo.op = "resolver"
    /\ ultimo.ok
    /\ programaciones' = Poner(programaciones, prog_id,
            [semana_produccion |-> semana, anio |-> anio, estado |-> SIMULACION,
             aprobada_por |-> NONE, fecha_aprobacion |-> 0])
    /\ tareas_planificadas' =
          tareas_guardadas(tareas_planificadas, prog_id, resultado, trabajos,
                           minutos_por_dia, 1)
    /\ ultimo' = Llamada("guardar_programacion_desde_resultado", prog_id,
                         [tareas_df |-> trabajos, programacion |-> resultado,
                          minutos_por_dia |-> minutos_por_dia],
                         TRUE, NONE)
    /\ UNCHANGED <<ejecuciones, metricas, sesiones>>

\* guardar_simulacion_con_tareas_divididas: f"{tarea_id}.P{i+1}" when the
\* task has more than one part, else tarea_id.
parte_id(tarea_id, i, partes_tarea) ==
    IF Len(partes_tarea) > 1 THEN [base |-> tarea_id, parte |-> i] ELSE tarea_id

\* for tarea_data in tareas_lista: if tarea_data['id'] == tarea_id
con_id(trabajos, tarea_id) == {i \in Indices(trabajos) : trabajos[i].id = tarea_id}

\* The first task of the lists with that id.
tarea_original_de(trabajos, tarea_id) ==
    trabajos[CHOOSE i \in con_id(trabajos, tarea_id) :
                \A j \in con_id(trabajos, tarea_id) : i <= j]

tarea_info_de_parte(asig, partes_tarea, i, tarea_original) ==
    [tarea_id |-> parte_id(asig.tarea_id, i, partes_tarea),
     maquina_id |-> tarea_original.maquina,
     operador_id |-> asig.operador,
     inicio_planificado |-> partes_tarea[i].inicio,
     fin_planificado |-> partes_tarea[i].fin,
     duracion_planificada |-> partes_tarea[i].duracion,
     tiempo_setup |-> tarea_original.tiempo_setup,
     es_dividida |-> Len(partes_tarea) > 1,
     parte_numero |-> IF Len(partes_tarea) > 1 THEN i ELSE SinValor]

\* The table after crear_tarea_planificada for the parts i .. Len(partes_tarea).
RECURSIVE partes_guardadas(_, _, _, _, _, _)
partes_guardadas(tabla, prog_id, asig, partes_tarea, tarea_original, i) ==
    IF i > Len(partes_tarea) THEN tabla
    ELSE partes_guardadas(
            Poner(tabla, SiguienteRowid(DOMAIN tabla),
                  TareaPlanificada(prog_id,
                      tarea_info_de_parte(asig, partes_tarea, i, tarea_original))),
            prog_id, asig, partes_tarea, tarea_original, i + 1)

\* The table after the loop over the assignments k .. Len(programacion).
RECURSIVE simulacion_guardada(_, _, _, _, _, _)
simulacion_guardada(tabla, prog_id, programacion, trabajos, minutos_por_dia, k) ==
    IF k > Len(programacion) THEN tabla
    ELSE simulacion_guardada(
            IF con_id(trabajos, programacion[k].tarea_id) = {}
            THEN tabla
            ELSE partes_guardadas(tabla, prog_id, programacion[k],
                     dividir_tarea_en_partes(programacion[k], minutos_por_dia),
                     tarea_original_de(trabajos, programacion[k].tarea_id), 1),
            prog_id, programacion, trabajos, minutos_por_dia, k + 1)

guardar_simulacion_con_tareas_divididas(semana, anio) ==
    LET prog_id == FormatoId(anio, semana, siguiente_numero(semana, anio))
        resultado == ultimo.nota
        trabajos == ultimo.arg.tareas_df
        minutos_por_dia == ultimo.arg.minutos_por_dia_laboral
    IN
    /\ ultimo.op = "resolver"
    /\ ultimo.ok
    /\ programaciones' = Poner(programaciones, prog_id,
            [semana_produccion |-> semana, anio |-> anio, estado |-> SIMULACION,
             aprobada_por |-> NONE, fecha_aprobacion |-> 0])
    /\ tareas_planificadas' =
          simulacion_guardada(tareas_planificadas, prog_id, resultado, trabajos,
                              minutos_por_dia, 1)
    /\ ultimo' = Llamada("guardar_simulacion_con_tareas_divididas", prog_id,
                         [tareas_df |-> trabajos, programacion |-> resultado,
                          minutos_por_dia |-> minutos_por_dia],
                         TRUE, NONE)
    /\ UNCHANGED <<ejecuciones, metricas, sesiones>>

\* Task tables of two tasks.
Especificaciones == {<<"M1">>, <<"M2">>, <<"M1", "M2">>, <<"M?">>}

Tarea(id, trabajo, maquina, duracion, tiempo_setup, orden) ==
    [id |-> id, trabajo |-> trabajo, maquina |-> maquina, duracion |-> duracion,
     tiempo_setup |-> tiempo_setup, orden |-> orden]

IdSimple(n) == [grupos |-> <<n>>, guion |-> FALSE]

IdsTarea ==
    {IdSimple(n) : n \in 1 .. MaxGrupo}
    \cup {[grupos |-> <<a, b>>, guion |-> g] :
            a \in 1 .. MaxGrupo, b \in 1 .. MaxGrupo, g \in BOOLEAN}

\* Every mix of machine specifications, ids "A1" and "A2" or "A1" and "B2".
TablasDeMaquinas ==
    {<<Tarea(IdSimple(1), "A", m1, d1, s1, SinValor),
       Tarea(IdSimple(2), t2, m2, d2, 0, SinValor)>> :
        m1 \in Especificaciones, m2 \in Especificaciones,
        d1 \in 1 .. MaxDuracion, d2 \in 1 .. MaxDuracion,
        s1 \in 0 .. MaxSetup, t2 \in {"A", "B"}}

\* orden of the two tasks: absent, or 1 and 2 in either order
Ordenes == {<<SinValor, SinValor>>, <<1, 2>>, <<2, 1>>}

\* Two tasks of one job on different machines, every pair of distinct ids.
TablasDePrecedencia ==
    {t \in {<<Tarea(id1, "A", <<"M1">>, 1, 0, o[1]),
              Tarea(id2, "A", <<"M2">>, 1, 0, o[2])>> :
                id1 \in IdsTarea, id2 \in IdsTarea, o \in Ordenes} :
        t[1].id # t[2].id}

\* One optimisation, then the save of its result.
NextModelo ==
    \/ \E tareas_df \in TablasDeMaquinas, num_operadores \in 0 .. MaxOperadores :
         /\ ultimo.op = "init"
         /\ \/ \E sol \in Candidatas(tareas_df, num_operadores,
                                     horizon(MaxDias, MaxMinutosDiaLaboral)) :
                 resolver(tareas_df, num_operadores, MaxDias, MaxMinutosDiaLaboral, sol)
            \/ resolver_sin_solucion(tareas_df, num_operadores, MaxDias,
                                     MaxMinutosDiaLaboral)
    \/ \E tareas_df \in TablasDePrecedencia :
         /\ ultimo.op = "init"
         /\ \E sol \in Candidatas(tareas_df, 0, horizon(MaxDias, MaxMinutosDiaLaboral)) :
              resolver(tareas_df, 0, MaxDias, MaxMinutosDiaLaboral, sol)
    \/ \E semana \in Semanas, anio \in Anios :
         guardar_programacion_desde_resultado(semana, anio)
    \/ \E semana \in Semanas, anio \in Anios :
         guardar_simulacion_con_tareas_divididas(semana, anio)

SpecModelo == Init /\ [][NextModelo]_vars

----------------------------------------------------------------------------
(* The KPI calculator KPIExporter (src/utils/kpi_calculator.py).  An         *)
(* execution is a row with maquina_usada, duracion_planificada,              *)
(* duracion_real, tiempo_paradas, problemas_encontrados and the planned      *)
(* hours inicio_hora and fin_hora, in minutes of the day, SinValor when the  *)
(* row has none.  A percentage is the fraction num / den with den > 0: the   *)
(* code computes it in floating point, the model keeps it exact.             *)

Fraccion(num, den) == [num |-> num, den |-> den]

Entero(n) == Fraccion(n, 1)

Menor(f, g) == f.num * g.den < g.num * f.den

MenorIgual(f, g) == f.num * g.den <= g.num * f.den

Igual(f, g) == f.num * g.den = g.num * f.den

RECURSIVE Sumar(_, _)
Sumar(f, S) ==
    IF S = {} THEN 0
    ELSE LET x == CHOOSE y \in S : TRUE IN f[x] + Sumar(f, S \ {x})

\* sum(e.get(campo) for e in ejecs)
duracion_planificada_total(ejecs) ==
    Sumar([i \in DOMAIN ejecs |-> ejecs[i].duracion_planificada],
          DOMAIN ejecs)

duracion_real_total(ejecs) ==
    Sumar([i \in DOMAIN ejecs |-> ejecs[i].duracion_real],
          DOMAIN ejecs)

tiempo_paradas_total(ejecs) ==
    Sumar([i \in DOMAIN ejecs |-> ejecs[i].tiempo_paradas],
          DOMAIN ejecs)

\* The planned hours give a duration when the row has both of them and the
\* week and the year are known.
tiene_horas(ejec, semana_produccion) ==
    /\ ejec.inicio_hora # SinValor
    /\ ejec.fin_hora # SinValor
    /\ semana_produccion # SinValor

\* (fin_plan_dt - inicio_plan_dt).total_seconds() / 60, both on the same day
dur_plan_total(ejec) == ejec.fin_hora - ejec.inicio_hora

dur_real_sin_paradas(ejec) == Max0(ejec.duracion_real - ejec.tiempo_paradas)

desv(ejec, semana_produccion) ==
    IF tiene_horas(ejec, semana_produccion)
    THEN dur_real_sin_paradas(ejec) - dur_plan_total(ejec)
    ELSE dur_real_sin_paradas(ejec) - ejec.duracion_planificada

Abs(x) == IF x < 0 THEN 0 - x ELSE x

\* A classification that counts a task as on time only without any deviation.
es_a_tiempo_sin_tolerancia(d, tolerancia_minutos) == d = 0

es_a_tiempo(d, tolerancia_minutos) == d = 0 \/ Abs(d) <= tolerancia_minutos

es_retrasada(d, tolerancia_minutos) ==
    ~es_a_tiempo(d, tolerancia_minutos) /\ d > tolerancia_minutos

es_adelantada(d, tolerancia_minutos) ==
    ~es_a_tiempo(d, tolerancia_minutos) /\ ~(d > tolerancia_minutos)

\* The counters a_tiempo, retrasadas and adelantadas after the loop.
a_tiempo(ejecs, tolerancia_minutos, semana_produccion) ==
    Cardinality({i \in DOMAIN ejecs :
                   es_a_tiempo(desv(ejecs[i], semana_produccion), tolerancia_minutos)})

retrasadas(ejecs, tolerancia_minutos, semana_produccion) ==
    Cardinality({i \in DOMAIN ejecs :
                   es_retrasada(desv(ejecs[i], semana_produccion), tolerancia_minutos)})

adelantadas(ejecs, tolerancia_minutos, semana_produccion) ==
    Cardinality({i \in DOMAIN ejecs :
                   es_adelantada(desv(ejecs[i], semana_produccion), tolerancia_minutos)})

calcular_cumplimiento_plazos(ejecs, tolerancia_minutos, semana_produccion) ==
    LET total == Len(ejecs) IN
    [otif_porcentaje |->
        IF total > 0
        THEN Fraccion(a_tiempo(ejecs, tolerancia_minutos, semana_produccion) * 100, total)
        ELSE Entero(0),
     tareas_a_tiempo |-> a_tiempo(ejecs, tolerancia_minutos, semana_produccion),
     tareas_retrasadas |-> retrasadas(ejecs, tolerancia_minutos, semana_produccion),
     tareas_adelantadas |-> adelantadas(ejecs, tolerancia_minutos, semana_produccion),
     total_tareas |-> total,
     tolerancia_usada |-> tolerancia_minutos]

\* min(100.0, max(0.0, x))
Acotar(f) ==
    IF Menor(f, Entero(0)) THEN Entero(0)
    ELSE IF Menor(Entero(100), f) THEN Entero(100)
    ELSE f

calcular_disponibilidad(ejecs) ==
    IF ejecs = << >> THEN Entero(0)
    ELSE IF duracion_planificada_total(ejecs) > 0
    THEN Acotar(Fraccion(Max0(duracion_planificada_total(ejecs)
                               - tiempo_paradas_total(ejecs)) * 100,
                         duracion_planificada_total(ejecs)))
    ELSE Entero(100)

\* The planned time of the rows that have planned hours.
tiempo_planificado_de_horas(ejecs, semana_produccion) ==
    Sumar([i \in DOMAIN ejecs |->
              IF tiene_horas(ejecs[i], semana_produccion)
              THEN dur_plan_total(ejecs[i]) ELSE 0],
          DOMAIN ejecs)

tiempo_planificado_total(ejecs, semana_produccion) ==
    IF tiempo_planificado_de_horas(ejecs, semana_produccion) = 0
    THEN duracion_planificada_total(ejecs)
    ELSE tiempo_planificado_de_horas(ejecs, semana_produccion)

calcular_rendimiento(ejecs, semana_produccion) ==
    IF ejecs = << >> THEN Entero(0)
    ELSE IF duracion_real_total(ejecs) > 0
    THEN Fraccion(tiempo_planificado_total(ejecs, semana_produccion) * 100,
                  duracion_real_total(ejecs))
    ELSE Entero(100)

calcular_calidad(ejecs) ==
    IF ejecs = << >> THEN Entero(0)
    ELSE Fraccion(Cardinality({i \in DOMAIN ejecs :
                                 ~ejecs[i].problemas_encontrados}) * 100,
                  Len(ejecs))

\* disponibilidad * rendimiento * calidad / 10000
calcular_oee(disponibilidad, rendimiento, calidad) ==
    Fraccion(disponibilidad.num * rendimiento.num * calidad.num,
             disponibilidad.den * rendimiento.den * calidad.den * 10000)

MaquinasUsadas(ejecs) ==
    {ejecs[i].maquina_usada : i \in DOMAIN ejecs}

DeMaquina(ejecs, maq) ==
    {i \in DOMAIN ejecs : ejecs[i].maquina_usada = maq}

\* The entry of a machine in the dictionary of calcular_eficiencia_machines.
datos_de_maquina(ejecs, maq, tiempo_disponible_maq) ==
    LET tiempo_productivo ==
            Sumar([i \in DOMAIN ejecs |-> ejecs[i].duracion_real],
                  DeMaquina(ejecs, maq))
        tiempo_planificado ==
            Sumar([i \in DOMAIN ejecs |-> ejecs[i].duracion_planificada],
                  DeMaquina(ejecs, maq))
        tiempo_setup ==
            Sumar([i \in DOMAIN ejecs |-> ejecs[i].tiempo_paradas],
                  DeMaquina(ejecs, maq))
    IN
    [tiempo_productivo |-> tiempo_productivo,
     tiempo_planificado |-> tiempo_planificado,
     tiempo_setup |-> tiempo_setup,
     num_tareas |-> Cardinality(DeMaquina(ejecs, maq)),
     eficiencia |-> IF tiempo_productivo > 0
                    THEN Fraccion(tiempo_planificado * 100, tiempo_productivo)
                    ELSE Entero(100),
     tiempo_ocioso |-> Max0(tiempo_disponible_maq - tiempo_productivo - tiempo_setup),
     tiempo_total |-> tiempo_disponible_maq,
     utilizacion_total |->
        IF tiempo_disponible_maq > 0
        THEN Fraccion((tiempo_productivo + tiempo_setup) * 100, tiempo_disponible_maq)
        ELSE Entero(0)]

calcular_eficiencia_machines(ejecs, dias_laborales, minutos_por_dia) ==
    [maq \in MaquinasUsadas(ejecs) |->
        datos_de_maquina(ejecs, maq, dias_laborales * minutos_por_dia)]

ToleranciaPorDefecto == 5

calcular_metricas_completas(ejecs, semana_produccion, dias_laborales, minutos_por_dia) ==
    LET cumplimiento == calcular_cumplimiento_plazos(ejecs, ToleranciaPorDefecto,
                                                     semana_produccion)
        disponibilidad == calcular_disponibilidad(ejecs)
        rendimiento == calcular_rendimiento(ejecs, semana_produccion)
        calidad == calcular_calidad(ejecs)
    IN
    [oee_global |-> calcular_oee(disponibilidad, rendimiento, calidad),
     disponibilidad_oee |-> disponibilidad,
     rendimiento_oee |-> rendimiento,
     calidad_oee |-> calidad,
     throughput_semanal |-> Len(ejecs),
     utilizacion_maquinas |->
        calcular_eficiencia_machines(ejecs, dias_laborales, minutos_por_dia),
     otif_porcentaje |-> cumplimiento.otif_porcentaje,
     tareas_a_tiempo |-> cumplimiento.tareas_a_tiempo,
     tareas_retrasadas |-> cumplimiento.tareas_retrasadas,
     total_tareas |-> Len(ejecs)]

\* Rows of executions with small durations.
Horas == {<<SinValor, SinValor>>, <<0, 2>>}

EjecucionKpi(maq, plan, real, paradas, problemas, horas) ==
    [maquina_usada |-> maq, duracion_planificada |-> plan, duracion_real |-> real,
     tiempo_paradas |-> paradas, problemas_encontrados |-> problemas,
     inicio_hora |-> horas[1], fin_hora |-> horas[2]]

FilasKpi(maquinas, problemas) ==
    {EjecucionKpi(maq, plan, real, paradas, prob, horas) :
        maq \in maquinas, plan \in 0 .. MaxPlanKpi, real \in 0 .. MaxRealKpi,
        paradas \in 0 .. MaxParadasKpi, prob \in problemas, horas \in Horas}

ListasDe(filas) == UNION {[1 .. n -> filas] : n \in 0 .. MaxEjecs}

\* Ten tasks planned at 60 minutes: nine executed within five minutes of the
\* plan, one executed twenty minutes late.
Escenario ==
    [i \in 1 .. 10 |->
        EjecucionKpi("M1", 60,
                     IF i = 10 THEN 80 ELSE 60 + ((i % 3) - 1) * 5,
                     0, FALSE, <<SinValor, SinValor>>)]

EntradasCumplimiento ==
    (ListasDe(FilasKpi({"M1"}, {FALSE})) \X (0 .. MaxTolerancia))
    \cup {<<Escenario, ToleranciaPorDefecto>>}

LlamarCumplimiento(ejecs, tolerancia_minutos, semana_produccion) ==
    /\ ultimo' = Llamada("calcular_cumplimiento_plazos", NoProg,
                         [ejecs |-> ejecs, tolerancia_minutos |-> tolerancia_minutos,
                          semana_produccion |-> semana_produccion],
                         TRUE,
                         calcular_cumplimiento_plazos(ejecs, tolerancia_minutos,
                                                      semana_produccion))
    /\ UNCHANGED <<datos, sesiones>>

LlamarMetricas(ejecs, semana_produccion, dias_laborales, minutos_por_dia) ==
    /\ ultimo' = Llamada("calcular_metricas_completas", NoProg,
                         [ejecs |-> ejecs, semana_produccion |-> semana_produccion],
                         TRUE,
                         calcular_metricas_completas(ejecs, semana_produccion,
                                                     dias_laborales, minutos_por_dia))
    /\ UNCHANGED <<datos, sesiones>>

\* One computation from the initial state.
NextKpi ==
    /\ ultimo.op = "init"
    /\ \/ \E e \in EntradasCumplimiento, semana \in Semanas \cup {SinValor} :
            LlamarCumplimiento(e[1], e[2], semana)
       \/ \E ejecs \in ListasDe(FilasKpi({"M1", "M2"}, BOOLEAN)), semana \in Semanas :
            LlamarMetricas(ejecs, semana, MaxDias, MaxMinutosDiaLaboral)

SpecKpi == Init /\ [][NextKpi]_vars

----------------------------------------------------------------------------
(* The calendar of a programacion (src/app_semanal.py) and the save of the   *)
(* processed list (src/utils/db_helpers.py).  A clock time datetime.time is  *)
(* the record of its hour and its minute; the text "HH:MM" that strftime     *)
(* writes and split(':') reads back is the pair <<hour, minute>>.            *)

Hora(h, m) == [hour |-> h, minute |-> m]

\* hora.hour * 60 + hora.minute
en_minutos(hora) == hora.hour * 60 + hora.minute

\* hora.strftime('%H:%M')
strftime(hora) == <<hora.hour, hora.minute>>

\* h, m = map(int, texto.split(':')); h * 60 + m
minutos_de_texto(texto) == texto[1] * 60 + texto[2]

\* The end of the working day written in the code.
DIECIOCHO == Hora(18, 0)

minutos_a_hora_dia(minutos_acumulativos, minutos_por_dia_laboral, hora_inicio, hora_fin) ==
    LET minutos_del_dia == minutos_acumulativos % minutos_por_dia_laboral
        horas_agregadas == minutos_del_dia \div 60
        minutos_agregados == minutos_del_dia % 60
        desborda == hora_inicio.minute + minutos_agregados >= 60
        hora_del_dia_int ==
            hora_inicio.hour + horas_agregadas + (IF desborda THEN 1 ELSE 0)
        minuto_del_dia_int ==
            hora_inicio.minute + minutos_agregados - (IF desborda THEN 60 ELSE 0)
        hora_calculada_minutos == hora_del_dia_int * 60 + minuto_del_dia_int
    IN
    IF minutos_del_dia = 0 /\ minutos_acumulativos > 0 THEN hora_inicio
    ELSE IF hora_calculada_minutos >= en_minutos(hora_fin) THEN hora_fin
    ELSE IF hora_calculada_minutos < en_minutos(hora_inicio) THEN hora_inicio
    ELSE Hora(hora_del_dia_int, minuto_del_dia_int)

\* if fin_min > 0 and fin_min % minutos_por_dia == 0: dt_time(18, 0)
fin_real_de(fin_min, minutos_por_dia, hora_inicio, hora_fin) ==
    IF fin_min > 0 /\ fin_min % minutos_por_dia = 0
    THEN DIECIOCHO
    ELSE minutos_a_hora_dia(fin_min, minutos_por_dia, hora_inicio, hora_fin)

DiasSemana == <<"Lunes", "Martes", "Miercoles", "Jueves", "Viernes", "Sabado", "Domingo">>

\* dias_laborales[dia_numero] if dia_numero < len(dias_laborales) else 'N/A'
dia_nombre_de(dia_numero, dias_laborales) ==
    IF dia_numero < Len(dias_laborales) THEN dias_laborales[dia_numero + 1] ELSE "N/A"

\* dia_completo[:3]
abreviar(nombre) ==
    CASE nombre = "Lunes" -> "Lun"
      [] nombre = "Martes" -> "Mar"
      [] nombre = "Miercoles" -> "Mie"
      [] nombre = "Jueves" -> "Jue"
      [] nombre = "Viernes" -> "Vie"
      [] nombre = "Sabado" -> "Sab"
      [] nombre = "Domingo" -> "Dom"
      [] OTHER -> nombre

\* The rows of programacion_data for one assignment of the solver: one per
\* part when the task starts and ends in different days, else one.
RECURSIVE partes_detalladas(_, _, _, _, _)
partes_detalladas(tarea_prog, tiempo_actual, tiempo_restante, parte_num, conf) ==
    IF tiempo_restante > 0
    THEN LET dia_numero == tiempo_actual \div conf.minutos_por_dia
             tiempo_disponible_dia ==
                 conf.minutos_por_dia - (tiempo_actual % conf.minutos_por_dia)
             duracion_parte == Min(tiempo_restante, tiempo_disponible_dia)
         IN <<[tarea_id |-> [base |-> tarea_prog.tarea_id, parte |-> parte_num],
               dia |-> abreviar(dia_nombre_de(dia_numero, conf.dias_laborales)),
               inicio_planificado |->
                   strftime(minutos_a_hora_dia(tiempo_actual, conf.minutos_por_dia,
                                               conf.hora_inicio, conf.hora_fin)),
               fin_planificado |->
                   strftime(fin_real_de(tiempo_actual + duracion_parte,
                                        conf.minutos_por_dia,
                                        conf.hora_inicio, conf.hora_fin)),
               duracion_planificada |-> duracion_parte]>>
            \o partes_detalladas(tarea_prog, tiempo_actual + duracion_parte,
                                 tiempo_restante - duracion_parte, parte_num + 1, conf)
    ELSE << >>

programacion_detallada_de(tarea_prog, conf) ==
    IF tarea_prog.inicio \div conf.minutos_por_dia
          # tarea_prog.fin \div conf.minutos_por_dia
    THEN partes_detalladas(tarea_prog, tarea_prog.inicio,
                           tarea_prog.fin - tarea_prog.inicio, 1, conf)
    ELSE <<[tarea_id |-> tarea_prog.tarea_id,
            dia |-> abreviar(dia_nombre_de(tarea_prog.inicio \div conf.minutos_por_dia,
                                           conf.dias_laborales)),
            inicio_planificado |->
                strftime(minutos_a_hora_dia(tarea_prog.inicio, conf.minutos_por_dia,
                                            conf.hora_inicio, conf.hora_fin)),
            fin_planificado |->
                strftime(minutos_a_hora_dia(tarea_prog.fin, conf.minutos_por_dia,
                                            conf.hora_inicio, conf.hora_fin)),
            duracion_planificada |-> tarea_prog.fin - tarea_prog.inicio]>>

\* dias_map.get(dia_str, 0), dias_map[dia_completo[:3]] = i
dia_num_de(dia_str, dias_laborales) ==
    LET con_nombre == {i \in 1 .. Len(dias_laborales) :
                          abreviar(dias_laborales[i]) = dia_str}
    IN IF con_nombre = {} THEN 0 ELSE Maximo(con_nombre) - 1

\* '.P' in tarea_id
tiene_parte(tarea_id) == "base" \in DOMAIN tarea_id

\* The dictionary guardar_programacion_desde_resultado builds for a row of the
\* processed list.
tarea_info_procesada(tarea_proc, conf) ==
    LET dia_num == dia_num_de(tarea_proc.dia, conf.dias_laborales) IN
    [tarea_id |-> tarea_proc.tarea_id,
     duracion_planificada |-> tarea_proc.duracion_planificada,
     tiempo_setup |-> 0,
     inicio_planificado |->
        dia_num * conf.minutos_por_dia + minutos_de_texto(tarea_proc.inicio_planificado),
     fin_planificado |->
        dia_num * conf.minutos_por_dia + minutos_de_texto(tarea_proc.fin_planificado),
     dia_semana |-> dia_num,
     es_dividida |-> tiene_parte(tarea_proc.tarea_id),
     parte_numero |-> IF tiene_parte(tarea_proc.tarea_id) THEN 2 ELSE 1,
     inicio_hora |-> tarea_proc.inicio_planificado,
     fin_hora |-> tarea_proc.fin_planificado,
     dia_nombre |-> tarea_proc.dia]

\* The one of guardar_simulacion_con_tareas_divididas: no dia_semana, no
\* parte_numero for a whole task.
tarea_info_procesada_simulacion(tarea_proc, conf) ==
    LET dia_num == dia_num_de(tarea_proc.dia, conf.dias_laborales) IN
    [tarea_id |-> tarea_proc.tarea_id,
     duracion_planificada |-> tarea_proc.duracion_planificada,
     tiempo_setup |-> 0,
     inicio_planificado |->
        dia_num * conf.minutos_por_dia + minutos_de_texto(tarea_proc.inicio_planificado),
     fin_planificado |->
        dia_num * conf.minutos_por_dia + minutos_de_texto(tarea_proc.fin_planificado),
     es_dividida |-> tiene_parte(tarea_proc.tarea_id),
     parte_numero |-> IF tiene_parte(tarea_proc.tarea_id) THEN 2 ELSE SinValor,
     inicio_hora |-> tarea_proc.inicio_planificado,
     fin_hora |-> tarea_proc.fin_planificado,
     dia_nombre |-> tarea_proc.dia]

\* The table after the loop over the rows k .. Len(programacion_detallada):
\* the row whose processing raises is skipped by the except clause.
RECURSIVE procesadas_guardadas(_, _, _, _, _, _, _)
procesadas_guardadas(tabla, prog_id, programacion_detallada, conf, rechazada, simulacion, k) ==
    IF k > Len(programacion_detallada) THEN tabla
    ELSE procesadas_guardadas(
            IF k = rechazada THEN tabla
            ELSE Poner(tabla, SiguienteRowid(DOMAIN tabla),
                       TareaPlanificada(prog_id,
                           IF simulacion
                           THEN tarea_info_procesada_simulacion(
                                    programacion_detallada[k], conf)
                           ELSE tarea_info_procesada(programacion_detallada[k], conf))),
            prog_id, programacion_detallada, conf, rechazada, simulacion, k + 1)

\* The application computes programacion_detallada from the result shown.
calcular_programacion_detallada(tarea_prog, conf) ==
    /\ ultimo' = Llamada("programacion_detallada", NoProg,
                         [tarea_prog |-> tarea_prog, conf |-> conf], TRUE,
                         programacion_detallada_de(tarea_prog, conf))
    /\ UNCHANGED <<datos, sesiones>>

\* A save with programacion_detallada; rechazada is the row whose time does
\* not parse or whose insert is rejected, 0 when there is none.
guardar_procesada(op, simulacion, semana, anio, rechazada) ==
    LET prog_id == FormatoId(anio, semana, siguiente_numero(semana, anio)) IN
    /\ ultimo.op = "programacion_detallada"
    /\ rechazada \in 0 .. Len(ultimo.nota)
    /\ programaciones' = Poner(programaciones, prog_id,
            [semana_produccion |-> semana, anio |-> anio, estado |-> SIMULACION,
             aprobada_por |-> NONE, fecha_aprobacion |-> 0])
    /\ tareas_planificadas' =
          procesadas_guardadas(tareas_planificadas, prog_id, ultimo.nota,
                               ultimo.arg.conf, rechazada, simulacion, 1)
    /\ ultimo' = Llamada(op, prog_id,
                         [programacion_detallada |-> ultimo.nota,
                          conf |-> ultimo.arg.conf, rechazada |-> rechazada],
                         TRUE, NONE)
    /\ UNCHANGED <<ejecuciones, metricas, sesiones>>

guardar_programacion_desde_resultado_procesada(semana, anio, rechazada) ==
    guardar_procesada("guardar_programacion_desde_resultado_procesada", FALSE,
                      semana, anio, rechazada)

guardar_simulacion_con_tareas_divididas_procesada(semana, anio, rechazada) ==
    guardar_procesada("guardar_simulacion_con_tareas_divididas_procesada", TRUE,
                      semana, anio, rechazada)

\* Shifts and working days of the configuration.
Turnos ==
    {[hora_inicio |-> Hora(8, 0), hora_fin |-> Hora(18, 0)],
     [hora_inicio |-> Hora(8, 0), hora_fin |-> Hora(17, 0)],
     [hora_inicio |-> Hora(8, 59), hora_fin |-> Hora(18, 0)],
     [hora_inicio |-> Hora(0, 0), hora_fin |-> Hora(18, 0)]}

DiasLaborales == SubSeq(DiasSemana, 1, 5)

Configuraciones ==
    {[minutos_por_dia |-> m, hora_inicio |-> t.hora_inicio, hora_fin |-> t.hora_fin,
      dias_laborales |-> DiasLaborales] : m \in MinutosPorDia, t \in Turnos}

\* Assignments inside the horizon of the working days.
TareasProgramadas(conf) ==
    {[tarea_id |-> IdSimple(1), inicio |-> asig.inicio, fin |-> asig.fin] :
        asig \in {a \in Asignaciones :
                    /\ a.inicio < a.fin
                    /\ a.fin <= Len(conf.dias_laborales) * conf.minutos_por_dia}}

NextHoras ==
    \/ /\ ultimo.op = "init"
       /\ \E conf \in Configuraciones :
            \E tarea_prog \in TareasProgramadas(conf) :
                calcular_programacion_detallada(tarea_prog, conf)
    \/ \E semana \in Semanas, anio \in Anios, rechazada \in 0 .. MaxMinuto :
         guardar_programacion_desde_resultado_procesada(semana, anio, rechazada)
    \/ \E semana \in Semanas, anio \in Anios, rechazada \in 0 .. MaxMinuto :
         guardar_simulacion_con_tareas_divididas_procesada(semana, anio, rechazada)

SpecHoras == Init /\ [][NextHoras]_vars

----------------------------------------------------------------------------
(* The objective "Maximizar utilización" of crear_modelo.  A solution of the *)
(* model is a valuation sol of the scheduling variables together with a      *)
(* valuation v of the variables the objective adds.                          *)

MaxMinutosUtilizacion == 3

\* self.model.Add(machine_assignment[i] == idx_maquina).OnlyEnforceIf(en_esta_maquina)
\* self.model.Add(tiempo_maquina >= end_time[i]).OnlyEnforceIf(en_esta_maquina)
tiempo_de_maquina(tareas_df, sol, en_esta_maquina, tiempo_maquina) ==
    \A m \in maquinas_fijas(tareas_df) :
      \A i \in Indices(tareas_df) :
        en_esta_maquina[m][i] =>
            /\ sol.maquina[i] = m
            /\ tiempo_maquina[m] >= sol.fin[i]

\* en_maq_m_i, tiempo_maq_m, makespan, tiempo_max, tiempo_min, obj_util: the
\* values in their domains that a bound of the model does not exclude at once.
VariablesDeUtilizacion(tareas_df, h, sol) ==
    UNION {{[en_esta_maquina |-> p.en_esta_maquina,
             tiempo_maquina |-> p.tiempo_maquina,
             makespan |-> makespan,
             tiempo_max |-> tiempo_max,
             tiempo_min |-> tiempo_min,
             objetivo_utilizacion |-> makespan * 5 + (tiempo_max - tiempo_min) * 10] :
                makespan \in {t \in 0 .. h : \A i \in Indices(tareas_df) : t >= sol.fin[i]},
                tiempo_max \in {t \in 0 .. h :
                                 \A m \in maquinas_fijas(tareas_df) :
                                    t >= p.tiempo_maquina[m]},
                tiempo_min \in {t \in 0 .. h :
                                 \A m \in maquinas_fijas(tareas_df) :
                                    t <= p.tiempo_maquina[m]}} :
            p \in {q \in [en_esta_maquina :
                            [maquinas_fijas(tareas_df) -> [Indices(tareas_df) -> BOOLEAN]],
                          tiempo_maquina : [maquinas_fijas(tareas_df) -> 0 .. h]] :
                      tiempo_de_maquina(tareas_df, sol, q.en_esta_maquina,
                                        q.tiempo_maquina)}}

\* elif objetivo == "Maximizar utilización"
maximizar_utilizacion(tareas_df, h, sol, v) ==
    /\ \A i \in Indices(tareas_df) : v.makespan >= sol.fin[i]
    /\ Cardinality(maquinas_fijas(tareas_df)) > 1 =>
        /\ tiempo_de_maquina(tareas_df, sol, v.en_esta_maquina, v.tiempo_maquina)
        /\ \A m \in maquinas_fijas(tareas_df) :
              /\ v.tiempo_max >= v.tiempo_maquina[m]
              /\ v.tiempo_min <= v.tiempo_maquina[m]
        /\ v.objetivo_utilizacion \in 0 .. (h * 100)
        /\ v.objetivo_utilizacion
              = v.makespan * 5 + (v.tiempo_max - v.tiempo_min) * 10

\* The expression handed to Minimize.
valor_a_minimizar(tareas_df, v) ==
    IF Cardinality(maquinas_fijas(tareas_df)) > 1
    THEN v.objetivo_utilizacion
    ELSE v.makespan

\* The solutions of the model built with the objective.
soluciones_de_utilizacion(tareas_df, num_operadores, h) ==
    UNION {{[sol |-> sol, v |-> v] :
                v \in {w \in VariablesDeUtilizacion(tareas_df, h, sol) :
                          maximizar_utilizacion(tareas_df, h, sol, w)}} :
            sol \in {c \in Candidatas(tareas_df, num_operadores, h) :
                        crear_modelo(tareas_df, num_operadores, h, c)}}

Minimo(S) == CHOOSE x \in S : \A y \in S : x <= y

\* Two tasks of different jobs, each allowed on M1 and M2, without setup.
TablasDeUtilizacion ==
    {<<Tarea(IdSimple(1), "A", <<"M1", "M2">>, d1, 0, SinValor),
       Tarea(IdSimple(2), "B", <<"M1", "M2">>, d2, 0, SinValor)>> :
        d1 \in 1 .. MaxDuracion, d2 \in 1 .. MaxDuracion}

\* No operators given, or one operator.
OperadoresDeUtilizacion == 0 .. 1

\* The lowest value of the objective over the solutions, none when there is
\* no solution.
valor_optimo(tareas_df, soluciones) ==
    IF soluciones = {} THEN SinValor
    ELSE Minimo({valor_a_minimizar(tareas_df, x.v) : x \in soluciones})

\* crear_modelo(objetivo = "Maximizar utilización"): the model, kept as the
\* set of its solutions with the optimum of the objective.
crear_modelo_utilizacion(tareas_df, num_operadores, dias_disponibles, minutos_por_dia_laboral) ==
    /\ ultimo.op = "init"
    /\ ultimo' = Llamada("crear_modelo", NoProg,
                    [tareas_df |-> tareas_df, num_operadores |-> num_operadores,
                     minutos_por_dia_laboral |-> minutos_por_dia_laboral],
                    TRUE,
                    [soluciones |->
                        soluciones_de_utilizacion(tareas_df, num_operadores,
                            horizon(dias_disponibles, minutos_por_dia_laboral)),
                     optimo |->
                        valor_optimo(tareas_df,
                            soluciones_de_utilizacion(tareas_df, num_operadores,
                                horizon(dias_disponibles, minutos_por_dia_laboral)))])
    /\ UNCHANGED <<datos, sesiones>>

\* resolver on that model: the solver returns a solution, OPTIMAL only when
\* none has a lower value.
resolver_utilizacion ==
    /\ ultimo.op = "crear_modelo"
    /\ \E x \in ultimo.nota.soluciones :
         \E status \in IF valor_a_minimizar(ultimo.arg.tareas_df, x.v) = ultimo.nota.optimo
                       THEN {"OPTIMAL", "FEASIBLE"} ELSE {"FEASIBLE"} :
           ultimo' = Llamada("resolver_utilizacion", NoProg, ultimo.arg, TRUE,
                       [status |-> status,
                        solucion |-> extraer_solucion(ultimo.arg.tareas_df,
                                         ultimo.arg.minutos_por_dia_laboral, x.sol),
                        variables |-> x.v,
                        optimo |-> ultimo.nota.optimo])
    /\ UNCHANGED <<datos, sesiones>>

NextUtilizacion ==
    \/ \E tareas_df \in TablasDeUtilizacion, num_operadores \in OperadoresDeUtilizacion :
          crear_modelo_utilizacion(tareas_df, num_operadores, 1, MaxMinutosUtilizacion)
    \/ resolver_utilizacion

SpecUtilizacion == Init /\ [][NextUtilizacion]_vars

----------------------------------------------------------------------------
(* Executions registered and corrected, with stops.                          *)

MaxTiempoEjecucion == 2

\* Planned tasks with planned minutes, and one saved without them.
TareaInfosEjecucion ==
    TareaInfos
    \cup {[duracion_planificada |-> d, inicio_planificado |-> 0, fin_planificado |-> 0] :
            d \in DuracionesPlan}

RegistrosConParadas ==
    {r \in [inicio_real : 0 .. MaxTiempoEjecucion, fin_real : 0 .. MaxTiempoEjecucion,
            tiempo_paradas : 0 .. 1] :
        r.inicio_real < r.fin_real}

\* An update gives a new start, a new end, a new time of stops, or leaves
\* each of them out.
ActualizacionesConParadas ==
    {a \in [inicio_real : {0, SinValor}, fin_real : {MaxTiempoEjecucion, SinValor},
            tiempo_paradas : {1, SinValor}] :
        a.inicio_real # SinValor \/ a.fin_real # SinValor \/ a.tiempo_paradas # SinValor}

NextEjecucion ==
    \/ \E s \in Semanas, a \in Anios :
         /\ programaciones = << >>
         /\ crear_programacion(s, a)
         /\ UNCHANGED sesiones
    \/ \E p \in DOMAIN programaciones, info \in TareaInfosEjecucion :
         /\ SiguienteRowid(DOMAIN tareas_planificadas) <= MaxTareaId
         /\ crear_tarea_planificada(p, info)
         /\ UNCHANGED sesiones
    \/ \E t \in TareaIds, r \in RegistrosConParadas :
         /\ SiguienteRowid(DOMAIN ejecuciones) <= MaxEjecucionId
         /\ registrar_ejecucion_real(t, r.inicio_real, r.fin_real, r.tiempo_paradas)
         /\ UNCHANGED sesiones
    \/ \E e \in EjecucionIds, a \in ActualizacionesConParadas :
         actualizar_ejecucion_real(e, a.inicio_real, a.fin_real, a.tiempo_paradas)
            /\ UNCHANGED sesiones

SpecEjecucion == Init /\ [][NextEjecucion]_vars

----------------------------------------------------------------------------
(* guardar_metricas, and the calls that store or keep a row of metrics.     *)

\* metricas_calculadas.programacion_id is unique: a second row for the same
\* programacion is rejected.  The foreign key is not enforced.
viola_unicidad(prog_id) == MetricasDe(prog_id) # {}

guardar_metricas(programacion_id, datos_kpi) ==
    IF viola_unicidad(programacion_id)
    THEN /\ ultimo' = Llamada("guardar_metricas", programacion_id, NONE, FALSE,
                              "IntegrityError")
         /\ UNCHANGED datos
    ELSE /\ metricas' = Poner(metricas, SiguienteRowid(DOMAIN metricas),
                              MetricaCalculada(programacion_id, datos_kpi))
         /\ ultimo' = Llamada("guardar_metricas", programacion_id, NONE, TRUE, NONE)
                        @@ [id |-> SiguienteRowid(DOMAIN metricas)]
         /\ UNCHANGED <<programaciones, tareas_planificadas, ejecuciones>>

DatosKpi == [throughput_semanal : 0 .. 1]

NextMetricas ==
    \/ \E s \in Semanas, a \in Anios :
         /\ programaciones = << >>
         /\ crear_programacion(s, a)
         /\ UNCHANGED sesiones
    \/ \E p \in DOMAIN programaciones, info \in TareaInfos :
         /\ SiguienteRowid(DOMAIN tareas_planificadas) <= MaxTareaId
         /\ crear_tarea_planificada(p, info)
         /\ UNCHANGED sesiones
    \/ \E t \in TareaIds, r \in Registros :
         /\ SiguienteRowid(DOMAIN ejecuciones) <= MaxEjecucionId
         /\ registrar_ejecucion_real(t, r.inicio_real, r.fin_real, r.tiempo_paradas)
         /\ UNCHANGED sesiones
    \/ \E p \in ProgIds, e \in EstadoProgramacion, u \in Usuarios, ahora \in Fechas,
          falla \in BOOLEAN :
         /\ falla => e = COMPLETADA
         /\ cambiar_estado_programacion(p, e, u, ahora, falla)
         /\ UNCHANGED sesiones
    \/ \E p \in ProgIds, falla \in BOOLEAN :
         calcular_y_guardar_metricas(p, falla) /\ UNCHANGED sesiones
    \/ \E p \in ProgIds, datos_kpi \in DatosKpi :
         guardar_metricas(p, datos_kpi) /\ UNCHANGED sesiones

SpecMetricas == Init /\ [][NextMetricas]_vars

----------------------------------------------------------------------------
(* Properties of the lifecycle.  A step whose ultimo' names a function is a  *)
(* call of that function: the unprimed variables are the tables before the   *)
(* call, the primed ones the tables after it.                                *)

EsLlamada(op) == ultimo'.op = op

\* The transition diagram of a programación.
CincoTransiciones ==
    {<<SIMULACION, PLANIFICADA>>, <<SIMULACION, CANCELADA>>,
     <<PLANIFICADA, EN_EJECUCION>>, <<PLANIFICADA, CANCELADA>>,
     <<EN_EJECUCION, COMPLETADA>>}

\* C1: cambiar_estado_programacion succeeds exactly for the five transitions of
\* the diagram; every other request on a stored programación (the state it is
\* already in, any request on completada or cancelada) returns failure and
\* leaves estado, aprobada_por and fecha_aprobacion as they were.
C1_SoloCincoTransiciones ==
    [][EsLlamada("cambiar_estado_programacion") /\ Existe(ultimo'.prog) =>
        LET p == ultimo'.prog
            pedido == <<programaciones[p].estado, ultimo'.arg>>
        IN /\ ultimo'.ok <=> pedido \in CincoTransiciones
           /\ ultimo'.ok => programaciones'[p].estado = ultimo'.arg
           /\ ~ultimo'.ok =>
                /\ ultimo'.nota # NONE
                /\ p \in DOMAIN programaciones'
                /\ programaciones'[p].estado = programaciones[p].estado
                /\ programaciones'[p].aprobada_por = programaciones[p].aprobada_por
                /\ programaciones'[p].fecha_aprobacion
                     = programaciones[p].fecha_aprobacion]_vars

\* A request for the state an approved programación is already in was refused.
C1_Testigo ==
    /\ ultimo.op = "cambiar_estado_programacion"
    /\ ~ultimo.ok
    /\ Existe(ultimo.prog)
    /\ programaciones[ultimo.prog].estado = PLANIFICADA
    /\ ultimo.arg = PLANIFICADA
    /\ programaciones[ultimo.prog].aprobada_por # NONE

Orden(estado) ==
    CASE estado = SIMULACION   -> 0
      [] estado = PLANIFICADA  -> 1
      [] estado = EN_EJECUCION -> 2
      [] estado = COMPLETADA   -> 3
      [] estado = CANCELADA    -> 4

\* C2: whatever operation is called, the state of a stored programación never
\* moves backwards in simulacion < planificada < en_ejecucion < completada, and
\* a programación in completada or cancelada keeps its state.
C2_NuncaRetrocede ==
    [][\A p \in DOMAIN programaciones \cap DOMAIN programaciones' :
        LET antes == programaciones[p].estado
            despues == programaciones'[p].estado
        IN /\ antes \in {COMPLETADA, CANCELADA} => despues = antes
           /\ (antes # CANCELADA /\ despues # CANCELADA) => Orden(antes) <= Orden(despues)
      ]_vars

Activas == {PLANIFICADA, EN_EJECUCION, COMPLETADA}

ActivasDeSemana(anio, semana) ==
    {p \in DOMAIN programaciones :
        /\ programaciones[p].anio = anio
        /\ programaciones[p].semana_produccion = semana
        /\ programaciones[p].estado \in Activas}

\* C3: for every (anio, semana) at most one programación is in planificada,
\* en_ejecucion or completada.
C3_UnaActivaPorSemana ==
    \A a \in Anios, s \in Semanas : Cardinality(ActivasDeSemana(a, s)) <= 1

\* C4: eliminar_programacion never removes a programación in en_ejecucion or
\* completada, with or without forzar: the call fails and nothing stored changes.
C4_HistoricoNoSeElimina ==
    [][(/\ EsLlamada("eliminar_programacion")
        /\ Existe(ultimo'.prog)
        /\ programaciones[ultimo'.prog].estado \in {EN_EJECUCION, COMPLETADA})
       => (~ultimo'.ok /\ UNCHANGED datos)]_vars

\* C5: without forzar eliminar_programacion deletes exactly the programaciones
\* in simulacion or cancelada; one in planificada is deleted exactly when forzar
\* is given; a refused or not-found deletion returns failure with a message and
\* leaves the tables as they were.
C5_PoliticaDeEliminacion ==
    [][EsLlamada("eliminar_programacion") =>
        LET p == ultimo'.prog
            forzar == ultimo'.arg = "forzar"
            eliminada == Existe(p) /\ p \notin DOMAIN programaciones'
        IN /\ ultimo'.ok <=> eliminada
           /\ ~forzar =>
                (eliminada <=>
                    Existe(p) /\ programaciones[p].estado \in {SIMULACION, CANCELADA})
           /\ (Existe(p) /\ programaciones[p].estado = PLANIFICADA) =>
                (eliminada <=> forzar)
           /\ ~ultimo'.ok => (ultimo'.nota # NONE /\ UNCHANGED datos)]_vars

\* A programación in planificada was deleted by a call with forzar.
C5_Testigo ==
    /\ ultimo.op = "eliminar_programacion"
    /\ ultimo.ok
    /\ ultimo.arg = "forzar"
    /\ ultimo.nota = PLANIFICADA
    /\ ~Existe(ultimo.prog)

\* C6: a successful eliminar_programacion(P) removes exactly P, the planned
\* tasks of P, the executions attached to those planned tasks and the metric of
\* P, and nothing else.
C6_CascadaExacta ==
    [][(EsLlamada("eliminar_programacion") /\ ultimo'.ok) =>
        LET p == ultimo'.prog
        IN /\ programaciones' = Quitar(programaciones, {p})
           /\ tareas_planificadas' = Quitar(tareas_planificadas, TareasDe(p))
           /\ ejecuciones' = Quitar(ejecuciones, EjecucionesDe(p))
           /\ metricas' = Quitar(metricas, MetricasDe(p))]_vars

\* C7: every planned task has at most one execution.
C7_UnaEjecucionPorTarea ==
    \A t \in DOMAIN tareas_planificadas : Cardinality(EjecucionesDeTarea(t)) <= 1

\* C8: registrar_ejecucion_real stores an execution only for a planned task
\* whose programación is in en_ejecucion.
C8_RegistroSoloEnEjecucion ==
    [][(EsLlamada("registrar_ejecucion_real") /\ ejecuciones' # ejecuciones) =>
        \A e \in DOMAIN ejecuciones' \ DOMAIN ejecuciones :
            LET t == ejecuciones'[e].tarea_planificada_id
            IN /\ t \in DOMAIN tareas_planificadas
               /\ Existe(tareas_planificadas[t].programacion_id)
               /\ programaciones[tareas_planificadas[t].programacion_id].estado
                    = EN_EJECUCION]_vars

\* C9: eliminar_ejecucion_real never removes an execution of a programación in
\* completada.
C9_CompletadaConservaEjecuciones ==
    [][EsLlamada("eliminar_ejecucion_real") =>
        \A p \in DOMAIN programaciones :
            programaciones[p].estado = COMPLETADA =>
                \A e \in EjecucionesDe(p) : e \in DOMAIN ejecuciones']_vars

\* C10: a valid request for completada returns success and leaves the
\* programación in completada whatever the KPI computation it triggers does
\* (stores a metric, returns None, raises).
C10_KpiNoRevierte ==
    [][(/\ EsLlamada("cambiar_estado_programacion")
        /\ ultimo'.arg = COMPLETADA
        /\ Existe(ultimo'.prog)
        /\ programaciones[ultimo'.prog].estado = EN_EJECUCION)
       => /\ ultimo'.ok
          /\ ultimo'.nota \in {"guardada", "existente", "sin ejecuciones", "error"}
          /\ programaciones'[ultimo'.prog].estado = COMPLETADA
          /\ ultimo'.nota = "guardada" <=>
                (\E m \in DOMAIN metricas' \ DOMAIN metricas :
                    metricas'[m].programacion_id = ultimo'.prog)]_vars

\* The KPI computation raised and the programación is completada.
C10_Testigo ==
    /\ ultimo.op = "cambiar_estado_programacion"
    /\ ultimo.arg = COMPLETADA
    /\ ultimo.nota = "error"
    /\ ultimo.ok
    /\ programaciones[ultimo.prog].estado = COMPLETADA
    /\ MetricasDe(ultimo.prog) = {}

\* C11: once a programación has a stored metric, a call of
\* calcular_y_guardar_metricas for it returns the id of that row and leaves
\* metricas_calculadas as it was, whatever happened to the executions since;
\* no programación ever has two metric rows.
C11_MetricaUnaVez ==
    [][/\ (EsLlamada("calcular_y_guardar_metricas") /\ MetricasDe(ultimo'.prog) # {}) =>
            /\ ultimo'.ok
            /\ ultimo'.id \in MetricasDe(ultimo'.prog)
            /\ metricas' = metricas
       /\ \A p \in ProgIds :
            Cardinality({m \in DOMAIN metricas' : metricas'[m].programacion_id = p}) <= 1
      ]_vars

\* A call found the stored metric although the executions counted in it have
\* changed since it was computed.
C11_Testigo ==
    /\ ultimo.op = "calcular_y_guardar_metricas"
    /\ ultimo.nota = "existente"
    /\ \E m \in MetricasDe(ultimo.prog) :
          /\ ultimo.id = m
          /\ metricas[m].throughput_semanal # Cardinality(EjecucionesDe(ultimo.prog))

\* C12: for a programación that has planned tasks,
\* verificar_programacion_completa reports it complete exactly when every one
\* of its planned tasks has an execution, however many execution rows a
\* planned task has.
C12_CompletaSiiTodasRegistradas ==
    [][(EsLlamada("verificar_programacion_completa") /\ TareasDe(ultimo'.prog) # {}) =>
        (ultimo'.ok <=>
            \A t \in TareasDe(ultimo'.prog) : EjecucionesDeTarea(t) # {})]_vars

\* C13: every creation that commits, also one that overlaps another, stores a
\* new row under an id PROG-<anio>-W<semana>-<seq> that no stored programación
\* has, and leaves every stored programación as it was.
C13_IdNuevoYUnico ==
    [][(EsLlamada("crear_programacion") /\ ultimo'.ok) =>
        LET p == ultimo'.prog IN
        /\ p \notin DOMAIN programaciones
        /\ DOMAIN programaciones' = DOMAIN programaciones \cup {p}
        /\ \A q \in DOMAIN programaciones : programaciones'[q] = programaciones[q]
        /\ \E n \in 1 .. MaxSeq :
              /\ p = FormatoId(programaciones'[p].anio,
                               programaciones'[p].semana_produccion, n)
              /\ n \notin numeros_usados(programaciones'[p].semana_produccion,
                                        programaciones'[p].anio)]_vars

\* Two creations for the same week overlapped: the one that committed second
\* had built the id the first one stored, and was rejected.
C13_Testigo ==
    /\ ultimo.op = "crear_programacion"
    /\ ~ultimo.ok
    /\ ultimo.nota = "IntegrityError"
    /\ Existe(ultimo.prog)

\* C14: whatever calls of cambiar_estado_programacion overlap, every change of
\* the state of a programación is one of the five transitions of the diagram.
C14_CaminoDelDiagrama ==
    [][\A p \in DOMAIN programaciones \cap DOMAIN programaciones' :
          \/ programaciones'[p].estado = programaciones[p].estado
          \/ <<programaciones[p].estado, programaciones'[p].estado>>
                \in CincoTransiciones]_vars

RECURSIVE SumaDuraciones(_)
SumaDuraciones(partes) ==
    IF partes = << >> THEN 0
    ELSE Head(partes).duracion + SumaDuraciones(Tail(partes))

\* C15: for 0 <= inicio < fin and a labor day of at least one minute, the parts
\* of dividir_tarea_en_partes are contiguous and cover [inicio, fin) exactly:
\* the first starts at inicio, each starts where the previous one ended, the
\* last ends at fin, each has duracion = fin - inicio of the part > 0, and the
\* durations add up to fin - inicio.
C15_PartesContiguas ==
    (ultimo.op = "dividir_tarea_en_partes" /\ ultimo.arg.asig.inicio < ultimo.arg.asig.fin) =>
        LET partes == ultimo.nota
            asig == ultimo.arg.asig
        IN /\ Len(partes) >= 1
           /\ partes[1].inicio = asig.inicio
           /\ partes[Len(partes)].fin = asig.fin
           /\ \A i \in 1 .. Len(partes) - 1 : partes[i + 1].inicio = partes[i].fin
           /\ \A i \in 1 .. Len(partes) :
                /\ partes[i].duracion = partes[i].fin - partes[i].inicio
                /\ partes[i].duracion > 0
           /\ SumaDuraciones(partes) = asig.fin - asig.inicio

\* A task that starts inside a day and is cut into three parts or more.
C15_Testigo ==
    /\ ultimo.op = "dividir_tarea_en_partes"
    /\ Len(ultimo.nota) >= 3
    /\ ultimo.arg.asig.inicio % ultimo.arg.minutos_por_dia # 0
    /\ ultimo.arg.asig.fin % ultimo.arg.minutos_por_dia # 0


----------------------------------------------------------------------------
(* Properties of the scheduling model.  After a call of resolver that found  *)
(* a solution, ultimo.arg is the input of crear_modelo and ultimo.nota the   *)
(* programacion that _extraer_solucion returns.                              *)

HaySolucion == ultimo.op = "resolver" /\ ultimo.ok

Disjuntas(a, b) == a.fin <= b.inicio \/ b.fin <= a.inicio

\* C16: in every solution of the model two tasks assigned to the same machine
\* have disjoint intervals, and so have two tasks assigned to the same
\* operator, whatever mix of fixed, listed and wildcard machines the tasks have.
C16_SinSuperposicion ==
    HaySolucion =>
      \A i, j \in DOMAIN ultimo.nota :
        i # j =>
          /\ ultimo.nota[i].maquina = ultimo.nota[j].maquina
                => Disjuntas(ultimo.nota[i], ultimo.nota[j])
          /\ (ultimo.arg.num_operadores # 0
              /\ ultimo.nota[i].operador = ultimo.nota[j].operador)
                => Disjuntas(ultimo.nota[i], ultimo.nota[j])

\* A listed-machines task and a wildcard task were put on the same machine
\* with the same operator.
C16_Testigo ==
    /\ HaySolucion
    /\ ultimo.arg.num_operadores = 2
    /\ es_lista(ultimo.arg.tareas_df[1].maquina)
    /\ es_comodin(ultimo.arg.tareas_df[2].maquina)
    /\ ultimo.nota[1].maquina = ultimo.nota[2].maquina
    /\ ultimo.nota[1].operador = ultimo.nota[2].operador
    /\ ultimo.nota[2].fin <= ultimo.nota[1].inicio

\* The order the specification gives to two tasks of one job: by orden, or
\* without orden by the number at the end of the id.
DebePreceder(tarea_i, tarea_j) ==
    IF tarea_i.orden # SinValor /\ tarea_j.orden # SinValor
    THEN tarea_i.orden < tarea_j.orden
    ELSE Ultimo(tarea_i.id.grupos) < Ultimo(tarea_j.id.grupos)

\* C17: in every solution the tasks of one job, taken in increasing orden (in
\* increasing number at the end of the id when orden is absent), follow one
\* another: each ends before the next starts.
C17_PrecedenciaPorOrden ==
    HaySolucion =>
      \A i, j \in DOMAIN ultimo.nota :
        (/\ ultimo.arg.tareas_df[i].trabajo = ultimo.arg.tareas_df[j].trabajo
         /\ DebePreceder(ultimo.arg.tareas_df[i], ultimo.arg.tareas_df[j]))
          => ultimo.nota[i].fin <= ultimo.nota[j].inicio

\* The string that holds exactly the name of one machine.
Cadena(nombre) == <<nombre>>

Plantilla(tareas_df, tarea_id) ==
    CHOOSE t \in {tareas_df[i] : i \in Indices(tareas_df)} : t.id = tarea_id

Elegibles(tareas_df, tarea) ==
    maquinas_permitidas(tarea.maquina, maquinas_fijas(tareas_df))

\* C18: the machine of every planned task is one of the machines of the
\* specification of its template: the machine the solver reports for the
\* task, and the maquina_id of the row the save stores for it.
C18_MaquinaElegible ==
    /\ HaySolucion =>
         \A i \in DOMAIN ultimo.nota :
            ultimo.nota[i].maquina
                \in Elegibles(ultimo.arg.tareas_df, ultimo.arg.tareas_df[i])
    /\ ultimo.op = "guardar_programacion_desde_resultado" =>
         \A t \in DOMAIN tareas_planificadas :
            tareas_planificadas[t].maquina_id \in
               {Cadena(m) : m \in Elegibles(ultimo.arg.tareas_df,
                                  Plantilla(ultimo.arg.tareas_df,
                                            tareas_planificadas[t].tarea_id))}


----------------------------------------------------------------------------
(* Properties of the KPI calculator.  After a call ultimo.arg holds the      *)
(* executions and ultimo.nota what the function returned.                    *)

EnPorcentaje(f) == MenorIgual(Entero(0), f) /\ MenorIgual(f, Entero(100))

\* C19: for every list of executions with non-negative durations and paradas
\* availability, quality, OTIF, OEE and the utilizacion_total of every machine
\* lie between 0 and 100, and performance is not negative.
C19_KpiEnRango ==
    ultimo.op = "calcular_metricas_completas" =>
      /\ EnPorcentaje(ultimo.nota.disponibilidad_oee)
      /\ EnPorcentaje(ultimo.nota.calidad_oee)
      /\ EnPorcentaje(ultimo.nota.otif_porcentaje)
      /\ EnPorcentaje(ultimo.nota.oee_global)
      /\ \A maq \in DOMAIN ultimo.nota.utilizacion_maquinas :
            EnPorcentaje(ultimo.nota.utilizacion_maquinas[maq].utilizacion_total)
      /\ MenorIgual(Entero(0), ultimo.nota.rendimiento_oee)

\* The deviation of an execution: its real duration without paradas, not
\* below zero, minus its planned duration (the one of its planned hours when
\* the row has them).
Desviacion(ejec, semana_produccion) ==
    LET real == ejec.duracion_real - ejec.tiempo_paradas
        productiva == IF real < 0 THEN 0 ELSE real
        planificada ==
            IF ejec.inicio_hora # SinValor /\ ejec.fin_hora # SinValor
               /\ semana_produccion # SinValor
            THEN ejec.fin_hora - ejec.inicio_hora
            ELSE ejec.duracion_planificada
    IN productiva - planificada

----------------------------------------------------------------------------
(* Properties of the save of a solver result.  After a save ultimo.arg holds *)
(* the task table, the programacion saved and the minutes of a working day.  *)

EsGuardado ==
    ultimo.op \in {"guardar_programacion_desde_resultado",
                   "guardar_simulacion_con_tareas_divididas"}

\* The id of the task a stored row belongs to.
IdBase(tarea_id) == IF "base" \in DOMAIN tarea_id THEN tarea_id.base ELSE tarea_id

FilasDe(asig) ==
    {t \in DOMAIN tareas_planificadas :
        /\ tareas_planificadas[t].programacion_id = ultimo.prog
        /\ IdBase(tareas_planificadas[t].tarea_id) = asig.tarea_id}

\* C21: a save of a solver result stores one row for every part of every
\* assignment: each row has fin_planificado - inicio_planificado =
\* duracion_planificada and the durations of the rows of a task add up to
\* fin - inicio of its assignment.
C21_TodasLasPartes ==
    EsGuardado =>
      \A k \in DOMAIN ultimo.arg.programacion :
        LET asig == ultimo.arg.programacion[k] IN
        /\ Cardinality(FilasDe(asig)) =
              Len(dividir_tarea_en_partes(asig, ultimo.arg.minutos_por_dia))
        /\ \A t \in FilasDe(asig) :
              tareas_planificadas[t].fin_planificado
                - tareas_planificadas[t].inicio_planificado
                    = tareas_planificadas[t].duracion_planificada
        /\ Sumar([t \in FilasDe(asig) |-> tareas_planificadas[t].duracion_planificada],
                 FilasDe(asig)) = asig.fin - asig.inicio

----------------------------------------------------------------------------
(* Properties of the calendar.  After calcular_programacion_detallada        *)
(* ultimo.arg holds the assignment and the configuration and ultimo.nota the *)
(* rows; after a save with the rows ultimo.arg holds the rows, the           *)
(* configuration and the row that was rejected.                              *)

\* The clock time m minutes after hora.
HoraMas(hora, m) ==
    Hora((en_minutos(hora) + m) \div 60, (en_minutos(hora) + m) % 60)

\* The flat minutes at which row k of the rows of an assignment starts and ends.
InicioDeFila(tarea_prog, minutos_por_dia, k) ==
    IF k = 1 THEN tarea_prog.inicio
    ELSE (tarea_prog.inicio \div minutos_por_dia + k - 1) * minutos_por_dia

FinDeFila(tarea_prog, minutos_por_dia, k) ==
    Min(tarea_prog.fin, (tarea_prog.inicio \div minutos_por_dia + k) * minutos_por_dia)

\* C23: for every configured shift and length of the working day, a row that
\* ends where its working day ends shows the end of the configured shift as
\* its end, and every other start or end at flat minute t shows the start of
\* the shift plus t mod the length of the day.
C23_FinDelTurnoConfigurado ==
    ultimo.op = "programacion_detallada" =>
      LET conf == ultimo.arg.conf
          H == conf.minutos_por_dia
          tarea_prog == ultimo.arg.tarea_prog
      IN \A k \in DOMAIN ultimo.nota :
           LET ini == InicioDeFila(tarea_prog, H, k)
               fin == FinDeFila(tarea_prog, H, k)
           IN /\ ultimo.nota[k].inicio_planificado
                    = strftime(HoraMas(conf.hora_inicio, ini % H))
              /\ ultimo.nota[k].fin_planificado
                    = IF fin = (ini \div H + 1) * H
                      THEN strftime(conf.hora_fin)
                      ELSE strftime(HoraMas(conf.hora_inicio, fin % H))

EsGuardadoProcesado ==
    ultimo.op \in {"guardar_programacion_desde_resultado_procesada",
                   "guardar_simulacion_con_tareas_divididas_procesada"}

FilasGuardadas ==
    {t \in DOMAIN tareas_planificadas :
        tareas_planificadas[t].programacion_id = ultimo.prog}

DiaSemana(fila) == IF "dia_semana" \in DOMAIN fila THEN fila.dia_semana ELSE SinValor

\* C22: every row stored from the rows with clock times has dia_semana =
\* floor(inicio_planificado / minutes of a working day) and inicio_planificado
\* = dia_semana * minutes of a working day + the minutes of inicio_hora after
\* the start of the shift.
C22_DiaYMinutoConsistentes ==
    EsGuardadoProcesado =>
      LET conf == ultimo.arg.conf IN
      \A t \in FilasGuardadas :
        LET fila == tareas_planificadas[t] IN
        /\ DiaSemana(fila) = fila.inicio_planificado \div conf.minutos_por_dia
        /\ fila.inicio_planificado
              = DiaSemana(fila) * conf.minutos_por_dia
                  + (minutos_de_texto(fila.inicio_hora) - en_minutos(conf.hora_inicio))

\* C24: a save is all or nothing: when the mapping or the insert of a row
\* fails, neither the programacion nor any of its rows is stored.
C24_TodoONada ==
    (EsGuardadoProcesado /\ ultimo.arg.rechazada # 0) =>
      /\ ~Existe(ultimo.prog)
      /\ FilasGuardadas = {}


----------------------------------------------------------------------------
(* Properties of the objective "Maximizar utilización".  After               *)
(* resolver_utilizacion ultimo.arg holds the task table and the operators    *)
(* and ultimo.nota the status, the programacion and the variables of the     *)
(* objective in the solution returned.                                       *)

EsUtilizacion == ultimo.op = "resolver_utilizacion"

\* The end of the last task of a programacion.
MakespanReal(programacion) ==
    Maximo({programacion[i].fin : i \in DOMAIN programacion})

\* The end of the last task a machine runs, 0 for a machine without tasks.
CargaReal(programacion, m) ==
    Maximo({0} \cup {programacion[i].fin :
                        i \in {j \in DOMAIN programacion : programacion[j].maquina = m}})

DesbalanceReal(tareas_df, programacion) ==
    Maximo({CargaReal(programacion, m) : m \in maquinas_fijas(tareas_df)})
      - Minimo({CargaReal(programacion, m) : m \in maquinas_fijas(tareas_df)})

\* C25: with the objective "Maximizar utilización" and more than one machine
\* every solution has the time of each machine at or after the end of every
\* task assigned to it, and the value of an optimal solution is 5 * makespan
\* + 10 * (largest - smallest true load of a machine).
C25_ObjetivoSobreCargasReales ==
    (EsUtilizacion /\ Cardinality(maquinas_fijas(ultimo.arg.tareas_df)) > 1) =>
      LET programacion == ultimo.nota.solucion
          v == ultimo.nota.variables
      IN /\ \A i \in DOMAIN programacion :
              v.tiempo_maquina[programacion[i].maquina] >= programacion[i].fin
         /\ ultimo.nota.status = "OPTIMAL" =>
              v.objetivo_utilizacion
                = 5 * MakespanReal(programacion)
                    + 10 * DesbalanceReal(ultimo.arg.tareas_df, programacion)

\* Scenario S3 with 120 minutes as the unit of time: two tasks of duration 1
\* without setup, of different jobs, each allowed on M1 and M2.
EscenarioS3 ==
    <<Tarea(IdSimple(1), "A", <<"M1", "M2">>, 1, 0, SinValor),
      Tarea(IdSimple(2), "B", <<"M1", "M2">>, 1, 0, SinValor)>>

\* C26: in scenario S3 with one operator every optimal solution has the two
\* tasks on different machines, both starting at 0, and makespan one task long.
C26_EscenarioS3Balanceado ==
    (/\ EsUtilizacion
     /\ ultimo.arg.tareas_df = EscenarioS3
     /\ ultimo.arg.num_operadores = 1
     /\ ultimo.nota.status = "OPTIMAL") =>
      LET programacion == ultimo.nota.solucion IN
      /\ programacion[1].maquina # programacion[2].maquina
      /\ programacion[1].inicio = 0
      /\ programacion[2].inicio = 0
      /\ MakespanReal(programacion) = 1

----------------------------------------------------------------------------
(* Properties of the executions.                                             *)

\* C27: after any registrations and updates every stored execution has
\* duracion_real = the minutes from inicio_real to fin_real and
\* desviacion_duracion = max(0, duracion_real - tiempo_paradas) - the duration
\* of its task, and an update that gives new times completes.
C27_EjecucionRecalculada ==
    /\ \A e \in DOMAIN ejecuciones :
         LET ejecucion == ejecuciones[e] IN
         ejecucion.tarea_planificada_id \in DOMAIN tareas_planificadas =>
           /\ ejecucion.duracion_real
                = MinutosEntre(ejecucion.inicio_real, ejecucion.fin_real)
           /\ ejecucion.desviacion_duracion
                = Max0(ejecucion.duracion_real - ejecucion.tiempo_paradas)
                    - duracion_original(
                          tareas_planificadas[ejecucion.tarea_planificada_id])
    /\ ~(ultimo.op = "actualizar_ejecucion_real" /\ ~ultimo.ok
            /\ ultimo.nota = "TypeError")

----------------------------------------------------------------------------
(* Properties of the metrics and of the completion.                         *)

\* C28: a row of metrics exists only for a programacion in state completada.
C28_MetricaSoloDeCompletada ==
    \A m \in DOMAIN metricas :
        Existe(metricas[m].programacion_id) =>
            programaciones[metricas[m].programacion_id].estado = COMPLETADA

\* C29: a programacion goes to completada only when it has a planned task
\* and every planned task has an execution; else the transition is refused.
C29_CompletadaSoloSiCompleta ==
    (/\ ultimo.op = "cambiar_estado_programacion"
     /\ ultimo.arg = COMPLETADA
     /\ ultimo.ok) =>
        esta_completa(ultimo.prog)

----------------------------------------------------------------------------
(* Properties of the parts of a task.                                       *)

\* C30: for 0 <= inicio < fin every part of dividir_tarea_en_partes lies in
\* one working day, the parts are numbered 1, 2, 3, ... in the order of their
\* starts, and es_dividida is true on a part exactly when the task gave more
\* than one part.
C30_PartesDeUnDia ==
    (/\ ultimo.op = "dividir_tarea_en_partes"
     /\ ultimo.arg.asig.inicio < ultimo.arg.asig.fin) =>
      LET partes == ultimo.nota
          H == ultimo.arg.minutos_por_dia
      IN \A k \in DOMAIN partes :
           /\ partes[k].inicio \div H = (partes[k].fin - 1) \div H
           /\ partes[k].parte_numero = k
           /\ k > 1 => partes[k - 1].inicio < partes[k].inicio
           /\ partes[k].es_dividida <=> (Len(partes) > 1)

====
